---- MODULE Spec2Model ----
(***************************************************************************)
(* The layout task of components/main/layout/layout_task.rs as a state     *)
(* machine: the message loop (handle_request, prepare_to_exit, exit_now),  *)
(* the reflow pipeline (handle_reflow and the traversals it drives) and    *)
(* the query resolver (handle_query).                                      *)
(***************************************************************************)
EXTENDS Integers, Sequences, FiniteSets, TLC

(***************************************************************************)
(* Bounds of the model.                                                    *)
(***************************************************************************)
\* The environment sends at most MaxMsgs messages to the layout port.
MaxMsgs == 3
\* At most MaxQueue messages wait in the port at once.
MaxQueue == 1

(***************************************************************************)
(* Values.                                                                 *)
(***************************************************************************)
\* Option<T>: None is the empty sequence, Some(x) the sequence holding x.
None == <<>>
Some(x) == <<x>>

\* The pipeline this task belongs to (LayoutTask.id).
PipelineIds == {"pipeline_a"}

\* Opaque node handles; the document root is RootNode.
RootNode == "n1"
Nodes == {"n1", "n2"}

Goals == {"ReflowForDisplay", "ReflowForScriptQuery"}
Levels == {"ReflowDocumentDamage", "MatchSelectorsDocumentDamage",
           "ContentChangedDocumentDamage"}
\* Window sizes in pixels, as carried by a Reflow message (the stored
\* screen size starts at 0 by 0, so the first reflow is a resize).
WindowSizes == {<<1, 1>>}
\* The values of opts.layout_threads considered: one is the sequential case.
ThreadCounts == {1, 2}
\* Query points in pixels.
Points == {<<0, 0>>, <<1, 1>>}

\* Au::from_px / Au::from_frac_px on whole pixels: 60 app units per pixel.
FromPx(px) == px * 60

Size2D(w, h) == [width |-> w, height |-> h]
Rect(x, y, w, h) == [x |-> x, y |-> y, w |-> w, h |-> h]
ZeroRect == Rect(0, 0, 0, 0)

Min(a, b) == IF a <= b THEN a ELSE b
Max(a, b) == IF a >= b THEN a ELSE b

\* Rect::union of the geom library: the bounding box of the two rectangles.
RectUnion(a, b) ==
    LET x0 == Min(a.x, b.x)
        y0 == Min(a.y, b.y)
        x1 == Max(a.x + a.w, b.x + b.w)
        y1 == Max(a.y + a.h, b.y + b.h)
    IN  Rect(x0, y0, x1 - x0, y1 - y0)

(***************************************************************************)
(* Display lists.  An item carries its bounds and the node that produced   *)
(* it (base.extra); a clip item owns a child list.                         *)
(***************************************************************************)
Item(node, bounds) ==
    [class |-> "Other", extra |-> node, bounds |-> bounds, child_list |-> <<>>]
Clip(node, bounds, kids) ==
    [class |-> "Clip", extra |-> node, bounds |-> bounds, child_list |-> kids]

\* DisplayItem::children: the child list of a clip item, empty otherwise.
Children(item) == IF item.class = "Clip" THEN item.child_list ELSE <<>>

RA == Rect(0, 0, 60, 60)
RB == Rect(30, 30, 60, 60)
RC == Rect(120, 120, 30, 30)

\* The collections the display-list builder may produce in the task model.
\* Every collection starts with the list handle_reflow adds itself.
BuiltCollections ==
    { << <<>> >>,
      << <<Item("n1", RA), Clip("n2", RB, <<Item("n1", RC)>>)>>,
         <<Item("n2", RA)>> >> }

(***************************************************************************)
(* Flow trees.  Flows are numbered 1..n in preorder; parent[f] is 0 for    *)
(* the root.  is_leaf/is_nonleaf are the flags the constructor sets.       *)
(***************************************************************************)
Tree(parent, leaf, nonleaf, inorder) ==
    [parent |-> parent, is_leaf |-> leaf, is_nonleaf |-> nonleaf,
     inorder |-> inorder, is_root |-> FALSE,
     restyle_damage |-> [f \in 1..Len(parent) |-> {}]]

\* RestyleDamage: a set of effects.  all() holds every effect;
\* propagate_up keeps what an ancestor must redo as well, propagate_down
\* what the children must redo as well.
RestyleEffects == {"Repaint", "BubbleWidths", "Reflow"}
DamageAll == RestyleEffects
PropagateUp(damage) == damage \cap {"Reflow"}
PropagateDown(damage) == damage \cap {"BubbleWidths"}

\* The tree t with the restyle damage d on its flows.
Damaged(t, d) == [t EXCEPT !.restyle_damage = d]

\* The flow trees the constructor may produce in the task model: a single
\* flow, a root with two leaves, and a tree whose child was marked neither
\* leaf nor nonleaf (what verify_flow_tree exists to catch).
BuiltTrees ==
    { Tree(<<0>>, <<TRUE>>, <<FALSE>>, <<FALSE>>),
      Damaged(Tree(<<0, 1, 1>>, <<FALSE, TRUE, TRUE>>, <<TRUE, FALSE, FALSE>>,
                   <<FALSE, FALSE, TRUE>>),
              <<{"BubbleWidths"}, {"Reflow"}, {}>>),
      Tree(<<0, 1>>, <<FALSE, FALSE>>, <<TRUE, FALSE>>, <<FALSE, FALSE>>) }

Flows(t) == 1..Len(t.parent)
RootFlow == 1
Kids(t, f) == {k \in Flows(t) : t.parent[k] = f}
\* The flow leaf set the constructor fills: the flows without children.
LeafSet(t) == {f \in Flows(t) : Kids(t, f) = {}}

\* The smallest element of a nonempty set of flows.
MinOf(S) == CHOOSE x \in S : \A y \in S : x <= y
MaxOf(S) == CHOOSE x \in S : \A y \in S : x >= y

\* The order in which traverse_preorder and traverse_postorder reach the
\* flows of the subtree of f: a flow before (after) its children, the
\* children in child order.
RECURSIVE Preorder(_, _), PreorderKids(_, _)
PreorderKids(t, ks) ==
    IF ks = {} THEN <<>>
    ELSE LET k == MinOf(ks) IN Preorder(t, k) \o PreorderKids(t, ks \ {k})
\* Mutant: a flow comes after the flows below it.
Preorder_RootLast(t, f) == PreorderKids(t, Kids(t, f)) \o <<f>>

Preorder(t, f) == <<f>> \o PreorderKids(t, Kids(t, f))

RECURSIVE Postorder(_, _), PostorderKids(_, _)
PostorderKids(t, ks) ==
    IF ks = {} THEN <<>>
    ELSE LET k == MinOf(ks) IN Postorder(t, k) \o PostorderKids(t, ks \ {k})
Postorder(t, f) == PostorderKids(t, Kids(t, f)) \o <<f>>

\* Is a an ancestor of f (or f itself)?
RECURSIVE IsAncestorOrSelf(_, _, _)
IsAncestorOrSelf(t, a, f) ==
    IF f = a THEN TRUE
    ELSE IF f = 0 THEN FALSE
    ELSE IsAncestorOrSelf(t, a, t.parent[f])

(***************************************************************************)
(* Documents.  A document is the sequence of its nodes as                  *)
(* traverse_preorder yields them; a node carries its type and the          *)
(* background colour its style resolves to.  Resolved colours have         *)
(* channels between 0 and 1.                                               *)
(***************************************************************************)
rgba(r, g, b, a) == <<r, g, b, a>>
Transparent == rgba(0, 0, 0, 0)
Blue == rgba(0, 0, 1, 1)
Red == rgba(1, 0, 0, 1)
\* A red without any opacity.
ClearRed == rgba(1, 0, 0, 0)
\* Line 622: the colour the selection starts from.
White == rgba(255, 255, 255, 255)

Element(type_id, color) == [type_id |-> type_id, background_color |-> color]

\* The longest document considered when the selection is checked on its own.
MaxDocument == 3

ElementTypeIds == {"HTMLHtmlElementTypeId", "HTMLBodyElementTypeId"}
DocumentNodes ==
    {Element(ty, c) : ty \in ElementTypeIds,
                      c \in {Transparent, Blue, Red, ClearRed}}
    \cup {Element("HTMLDivElementTypeId", c) : c \in {Transparent, Blue, Red}}
Documents == UNION {[1..n -> DocumentNodes] : n \in 0..MaxDocument}

\* The document of the task model: a transparent html element, a blue
\* body and a red div in it.
TaskDocuments ==
    { <<Element("HTMLHtmlElementTypeId", Transparent),
        Element("HTMLBodyElementTypeId", Blue),
        Element("HTMLDivElementTypeId", Red)>> }

(***************************************************************************)
(* Messages of the layout port (script::layout_interface::Msg).            *)
(***************************************************************************)
AddStylesheetMsg == [type |-> "AddStylesheetMsg"]
ReflowMsg(document_root, goal, level, size, id) ==
    [type |-> "ReflowMsg", document_root |-> document_root, goal |-> goal,
     level |-> level, window_size |-> size, id |-> id]
ContentBoxQuery(node) ==
    [type |-> "QueryMsg", kind |-> "ContentBoxQuery", node |-> node]
ContentBoxesQuery(node) ==
    [type |-> "QueryMsg", kind |-> "ContentBoxesQuery", node |-> node]
HitTestQuery(point) ==
    [type |-> "QueryMsg", kind |-> "HitTestQuery", point |-> point]
ReapLayoutDataMsg(node) == [type |-> "ReapLayoutDataMsg", node |-> node]
PrepareToExitMsg == [type |-> "PrepareToExitMsg"]
ExitNowMsg == [type |-> "ExitNowMsg"]
NoMsg == [type |-> "NoMsg"]

Queries ==
    {ContentBoxQuery(n) : n \in Nodes} \cup {ContentBoxesQuery(n) : n \in Nodes}
    \cup {HitTestQuery(p) : p \in Points}

\* The queries sent in the task model, one of each kind.
TaskQueries ==
    {ContentBoxQuery("n2"), ContentBoxesQuery("n2"), HitTestQuery(<<1, 1>>)}

\* The messages the environment may send when it has already sent n.
\* A reflow request's identity is its position among the messages sent.
Msgs(n) ==
    {AddStylesheetMsg, PrepareToExitMsg, ExitNowMsg}
    \cup {ReflowMsg(d, g, l, s, n + 1) :
             d \in TaskDocuments, g \in Goals, l \in Levels, s \in WindowSizes}
    \cup TaskQueries
    \cup {ReapLayoutDataMsg(d) : d \in Nodes}

VARIABLES
    id,                       \* LayoutTask.id
    port,                     \* LayoutTask.port: the messages waiting
    nsent,                    \* how many messages the environment has sent
    state,                    \* Running, PreparingToExit, Exited or Failed
    pc,                       \* the statement the task is at
    cur,                      \* the message being handled
    out,                      \* what this handle_request call has sent so far
    layout_data,              \* per node: None or the flow construction result
    screen_size,              \* LayoutTask.screen_size
    display_list_collection,  \* LayoutTask.display_list_collection
    stylist,                  \* number of author stylesheets added
    layout_threads,           \* opts.layout_threads
    parallel_traversal,       \* LayoutTask.parallel_traversal: None or Some
    pool_shutdowns,           \* how often the work queue was shut down
    debug,                    \* whether this is a debug build (cfg(debug))
    all_style_damage,         \* handle_reflow's local
    layout_root,              \* the flow tree of the reflow in progress
    visited,                  \* per traversal: the flows it has processed
    queue,                    \* work queue: flows ready for a worker
    remaining,                \* per flow: children that have not completed
    worker,                   \* per worker: the flow it holds, or 0
    restyle_damage,           \* per flow: base.restyle_damage
    geometry,                 \* per flow: what the solver has computed
    response_port             \* exit handshake: none, waiting or acked

vars == <<id, port, nsent, state, pc, cur, out, layout_data, screen_size,
          display_list_collection, stylist, layout_threads, parallel_traversal,
          pool_shutdowns, debug, all_style_damage, layout_root, visited, queue,
          remaining, worker, restyle_damage, geometry, response_port>>

taskVars == <<id, layout_threads, debug>>
reflowVars == <<all_style_damage, layout_root, visited, queue, remaining, worker,
                restyle_damage, geometry>>

\* visited[t] is the set of flows traversal t has reached; height_assigned
\* holds the flows whose assign_height and store_overflow have run.
Traversals == {"propagate_damage", "compute_damage", "bubble_widths",
               "assign_widths", "assign_heights", "height_assigned"}
NoVisits == [t \in Traversals |-> {}]

Workers == 1..layout_threads

(***************************************************************************)
(* LayoutTask::new                                                         *)
(***************************************************************************)
ParallelTraversalFor(threads) == IF threads # 1 THEN Some("WorkQueue") ELSE None

Init ==
    /\ id \in PipelineIds
    /\ port = <<>>
    /\ nsent = 0
    /\ state = "Running"
    /\ pc = "recv"
    /\ cur = NoMsg
    /\ out = <<>>
    /\ layout_data = [n \in Nodes |-> None]
    /\ screen_size = Size2D(0, 0)
    /\ display_list_collection = None
    /\ stylist = 0
    /\ layout_threads \in ThreadCounts
    /\ parallel_traversal = ParallelTraversalFor(layout_threads)
    /\ pool_shutdowns = 0
    /\ debug \in BOOLEAN
    /\ all_style_damage = FALSE
    /\ layout_root = None
    /\ visited = NoVisits
    /\ queue = {}
    /\ remaining = <<>>
    /\ worker = [w \in Workers |-> 0]
    /\ restyle_damage = <<>>
    /\ geometry = <<>>
    /\ response_port = "none"

(***************************************************************************)
(* The environment: the script task and constellation send messages.       *)
(***************************************************************************)
Send(m) ==
    /\ nsent < MaxMsgs
    /\ Len(port) < MaxQueue
    /\ port' = Append(port, m)
    /\ nsent' = nsent + 1
    /\ UNCHANGED <<state, pc, cur, out, layout_data, screen_size,
                   display_list_collection, stylist, parallel_traversal,
                   pool_shutdowns, response_port>>
    /\ UNCHANGED taskVars
    /\ UNCHANGED reflowVars

\* A sent message as an entry of out.
Sent(chan, msg) == [chan |-> chan, msg |-> msg]

\* fail!: the task terminates; nothing it owns changes any more.
Fail(reason) ==
    /\ state' = "Failed"
    /\ pc' = reason

(***************************************************************************)
(* handle_request: port.recv() in the Running state and the dispatch on    *)
(* the message.  Each call starts with nothing sent yet.                   *)
(***************************************************************************)
\* Mutant: the port is read while a handler is still running.
Recv_Reentrant(type) ==
    /\ state = "Running"
    /\ port # <<>>
    /\ Head(port).type = type
    /\ port' = Tail(port)
    /\ cur' = Head(port)
    /\ UNCHANGED nsent

Recv(type) ==
    /\ state = "Running"
    /\ pc = "recv"
    /\ port # <<>>
    /\ Head(port).type = type
    /\ port' = Tail(port)
    /\ cur' = Head(port)
    /\ UNCHANGED nsent

\* handle_add_stylesheet
HandleAddStylesheet ==
    /\ Recv("AddStylesheetMsg")
    /\ stylist' = stylist + 1
    /\ out' = <<>>
    /\ UNCHANGED <<state, pc, layout_data, screen_size, display_list_collection,
                   parallel_traversal, pool_shutdowns, response_port>>
    /\ UNCHANGED taskVars
    /\ UNCHANGED reflowVars

\* Mutant: the slot is read but not replaced.
ReapLayoutData_KeepsData(data, node) == data

\* handle_reap_layout_data: util::replace(layout_data_ref.get(), None)
ReapLayoutData(data, node) == [data EXCEPT ![node] = None]

HandleReapLayoutData ==
    /\ Recv("ReapLayoutDataMsg")
    /\ layout_data' = ReapLayoutData(layout_data, Head(port).node)
    /\ out' = <<>>
    /\ UNCHANGED <<state, pc, screen_size, display_list_collection, stylist,
                   parallel_traversal, pool_shutdowns, response_port>>
    /\ UNCHANGED taskVars
    /\ UNCHANGED reflowVars

\* ReflowMsg: handle_reflow is entered.
HandleReflowMsg ==
    /\ Recv("ReflowMsg")
    /\ pc' = "reflow"
    /\ out' = <<>>
    /\ UNCHANGED <<state, layout_data, screen_size, display_list_collection,
                   stylist, parallel_traversal, pool_shutdowns, response_port>>
    /\ UNCHANGED taskVars
    /\ UNCHANGED reflowVars

\* PrepareToExitMsg: prepare_to_exit is entered.
HandlePrepareToExitMsg ==
    /\ Recv("PrepareToExitMsg")
    /\ pc' = "prepare_to_exit"
    /\ out' = <<>>
    /\ UNCHANGED <<state, layout_data, screen_size, display_list_collection,
                   stylist, parallel_traversal, pool_shutdowns, response_port>>
    /\ UNCHANGED taskVars
    /\ UNCHANGED reflowVars

\* ExitNowMsg: exit_now is entered.
HandleExitNowMsg ==
    /\ Recv("ExitNowMsg")
    /\ pc' = "exit_now"
    /\ out' = <<>>
    /\ UNCHANGED <<state, layout_data, screen_size, display_list_collection,
                   stylist, parallel_traversal, pool_shutdowns, response_port>>
    /\ UNCHANGED taskVars
    /\ UNCHANGED reflowVars

(***************************************************************************)
(* prepare_to_exit                                                         *)
(***************************************************************************)
\* Mutant: the pong is forgotten.
PongSends_Nothing == <<>>

\* response_chan.send(()), then the quiescent loop is entered.
PongSends == <<Sent("response_chan", [type |-> "Pong"])>>

PrepareToExit_Pong ==
    /\ state = "Running"
    /\ pc = "prepare_to_exit"
    /\ out' = out \o PongSends
    /\ state' = "PreparingToExit"
    /\ pc' = "recv"
    /\ UNCHANGED <<port, nsent, cur, layout_data, screen_size,
                   display_list_collection, stylist, parallel_traversal,
                   pool_shutdowns, response_port>>
    /\ UNCHANGED taskVars
    /\ UNCHANGED reflowVars

\* port.recv() inside the quiescent loop.
PrepareRecv ==
    /\ state = "PreparingToExit"
    /\ pc = "recv"
    /\ port # <<>>
    /\ port' = Tail(port)
    /\ cur' = Head(port)
    /\ UNCHANGED <<nsent, out>>

\* Mutant: a second PrepareToExitMsg is taken for the exit message.
PrepareArm_SecondPrepareExits(type) ==
    CASE type = "ReapLayoutDataMsg" -> "reap"
      [] type \in {"ExitNowMsg", "PrepareToExitMsg"} -> "exit_now"
      [] OTHER -> "fail"

\* The arm of prepare_to_exit's match a message type takes.
PrepareArm(type) ==
    CASE type = "ReapLayoutDataMsg" -> "reap"
      [] type = "ExitNowMsg" -> "exit_now"
      [] OTHER -> "fail"

PrepareToExit_Reap ==
    /\ PrepareRecv
    /\ PrepareArm(Head(port).type) = "reap"
    /\ layout_data' = ReapLayoutData(layout_data, Head(port).node)
    /\ UNCHANGED <<state, pc, screen_size, display_list_collection, stylist,
                   parallel_traversal, pool_shutdowns, response_port>>
    /\ UNCHANGED taskVars
    /\ UNCHANGED reflowVars

PrepareToExit_ExitNow ==
    /\ PrepareRecv
    /\ PrepareArm(Head(port).type) = "exit_now"
    /\ pc' = "exit_now"
    /\ UNCHANGED <<state, layout_data, screen_size, display_list_collection,
                   stylist, parallel_traversal, pool_shutdowns, response_port>>
    /\ UNCHANGED taskVars
    /\ UNCHANGED reflowVars

PrepareToExit_Fail ==
    /\ PrepareRecv
    /\ PrepareArm(Head(port).type) = "fail"
    /\ Fail("fail_message_after_prepare_to_exit")
    /\ UNCHANGED <<layout_data, screen_size, display_list_collection, stylist,
                   parallel_traversal, pool_shutdowns, response_port>>
    /\ UNCHANGED taskVars
    /\ UNCHANGED reflowVars

(***************************************************************************)
(* exit_now                                                                *)
(***************************************************************************)
\* Mutant: the pool is shut down a second time.
ShutdownsAfterExit_Twice(pt, n) == IF pt # None THEN n + 2 ELSE n

\* match self.parallel_traversal { Some(traversal) => traversal.shutdown() }
ShutdownsAfterExit(pt, n) == IF pt # None THEN n + 1 ELSE n

ExitNow_Shutdown ==
    /\ pc = "exit_now"
    /\ pool_shutdowns' = ShutdownsAfterExit(parallel_traversal, pool_shutdowns)
    /\ pc' = "exit_send"
    /\ UNCHANGED <<port, nsent, state, cur, out, layout_data, screen_size,
                   display_list_collection, stylist, parallel_traversal,
                   response_port>>
    /\ UNCHANGED taskVars
    /\ UNCHANGED reflowVars

\* self.render_chan.send(render_task::ExitMsg(response_chan))
ExitNow_Send ==
    /\ pc = "exit_send"
    /\ out' = Append(out, Sent("render_chan", [type |-> "ExitMsg"]))
    /\ response_port' = "waiting"
    /\ pc' = "exit_wait"
    /\ UNCHANGED <<port, nsent, state, cur, layout_data, screen_size,
                   display_list_collection, stylist, parallel_traversal,
                   pool_shutdowns>>
    /\ UNCHANGED taskVars
    /\ UNCHANGED reflowVars

\* The renderer answers the exit request.
Renderer_AckExit ==
    /\ response_port = "waiting"
    /\ response_port' = "acked"
    /\ UNCHANGED <<port, nsent, state, pc, cur, out, layout_data, screen_size,
                   display_list_collection, stylist, parallel_traversal,
                   pool_shutdowns>>
    /\ UNCHANGED taskVars
    /\ UNCHANGED reflowVars

\* Mutant: exit_now does not wait for the renderer's answer.
ExitAcked_NoWait(rp) == TRUE

\* Mutant: exit_now waits on a port nobody answers.
ExitAcked_WrongPort(rp) == rp = "none"

\* response_port.recv() returns once the renderer has answered.
ExitAcked(rp) == rp = "acked"

\* exit_now returns; handle_request returns false and start's loop ends.
ExitNow_Return ==
    /\ pc = "exit_wait"
    /\ ExitAcked(response_port)
    /\ state' = "Exited"
    /\ pc' = "done"
    /\ UNCHANGED <<port, nsent, cur, out, layout_data, screen_size,
                   display_list_collection, stylist, parallel_traversal,
                   pool_shutdowns, response_port>>
    /\ UNCHANGED taskVars
    /\ UNCHANGED reflowVars

(***************************************************************************)
(* handle_reflow                                                           *)
(***************************************************************************)
\* Mutant: a change of the window size is not looked at.
AllStyleDamage_ContentOnly(level, stored, current) ==
    level = "ContentChangedDocumentDamage"

\* Lines 534-543: content changed, or the window was resized.
AllStyleDamage(level, stored, current) ==
    level = "ContentChangedDocumentDamage" \/ stored # current

CurrentScreenSize(ws) == Size2D(FromPx(ws[1]), FromPx(ws[2]))

Reflow_Begin ==
    /\ pc = "reflow"
    /\ all_style_damage' =
           AllStyleDamage(cur.level, screen_size, CurrentScreenSize(cur.window_size))
    /\ screen_size' = CurrentScreenSize(cur.window_size)
    /\ pc' = "match"
    /\ UNCHANGED <<port, nsent, state, cur, out, layout_data,
                   display_list_collection, stylist, parallel_traversal,
                   pool_shutdowns, response_port>>
    /\ UNCHANGED taskVars
    /\ UNCHANGED <<layout_root, visited, queue, remaining, worker,
                   restyle_damage, geometry>>

NoConstructionResult == [kind |-> "NoConstructionResult"]
FlowConstructionResult(t) == [kind |-> "FlowConstructionResult", flow |-> t]

\* Selector matching is skipped for ReflowDocumentDamage.
NeedsMatch(level) == level # "ReflowDocumentDamage"

\* match_and_cascade_subtree gives every node that has none its layout data.
InitializeLayoutData(data) ==
    [n \in Nodes |-> IF data[n] = None THEN Some(NoConstructionResult) ELSE data[n]]

Reflow_Match ==
    /\ pc = "match"
    /\ layout_data' = IF NeedsMatch(cur.level)
                      THEN InitializeLayoutData(layout_data)
                      ELSE layout_data
    /\ pc' = "construct"
    /\ UNCHANGED <<port, nsent, state, cur, out, screen_size,
                   display_list_collection, stylist, parallel_traversal,
                   pool_shutdowns, response_port>>
    /\ UNCHANGED taskVars
    /\ UNCHANGED reflowVars

\* What the flow constructor may leave in the root node's slot.
ConstructionResults ==
    {NoConstructionResult} \cup {FlowConstructionResult(t) : t \in BuiltTrees}

\* Line 420: the FlowConstructor traversal stores the root's result in the
\* root node's layout data (when the node has layout data).
Construct_Traverse ==
    /\ pc = "construct"
    /\ IF layout_data[RootNode] = None
       THEN UNCHANGED layout_data
       ELSE \E r \in ConstructionResults :
               layout_data' = [layout_data EXCEPT ![RootNode] = Some(r)]
    /\ pc' = "construct_take"
    /\ UNCHANGED <<port, nsent, state, cur, out, screen_size,
                   display_list_collection, stylist, parallel_traversal,
                   pool_shutdowns, response_port>>
    /\ UNCHANGED taskVars
    /\ UNCHANGED reflowVars

\* flow.mark_as_root()
MarkAsRoot(t) == [t EXCEPT !.is_root = TRUE]

\* Mutant: the result is read but left in the slot.
TakeResult_Keeps(data) == data

\* util::replace(&mut layout_data.data.flow_construction_result, NoConstructionResult)
TakeResult(data) == [data EXCEPT ![RootNode] = Some(NoConstructionResult)]

\* children_count of every flow, as the constructor leaves it.
ChildrenCount(t) == [f \in Flows(t) |-> Cardinality(Kids(t, f))]

\* The position, size and overflow fields of a freshly built flow: nothing
\* has been computed yet.
Unset == <<>>
Unsolved(t) ==
    [f \in Flows(t) |->
        [intrinsic |-> Unset, width |-> Unset, height |-> Unset, overflow |-> Unset]]

\* Lines 422-434 when the root's result is a flow.
Construct_TakeFlow ==
    /\ pc = "construct_take"
    /\ layout_data[RootNode] # None
    /\ layout_data[RootNode][1].kind = "FlowConstructionResult"
    /\ layout_data' = TakeResult(layout_data)
    /\ layout_root' = Some(MarkAsRoot(layout_data[RootNode][1].flow))
    /\ remaining' = ChildrenCount(layout_data[RootNode][1].flow)
    /\ restyle_damage' = layout_data[RootNode][1].flow.restyle_damage
    /\ geometry' = Unsolved(layout_data[RootNode][1].flow)
    /\ pc' = "verify"
    /\ UNCHANGED <<port, nsent, state, cur, out, screen_size,
                   display_list_collection, stylist, parallel_traversal,
                   pool_shutdowns, response_port>>
    /\ UNCHANGED taskVars
    /\ UNCHANGED <<all_style_damage, visited, queue, worker>>

\* Line 427: fail!("no layout data for root node")
Construct_FailNoLayoutData ==
    /\ pc = "construct_take"
    /\ layout_data[RootNode] = None
    /\ Fail("fail_no_layout_data_for_root_node")
    /\ UNCHANGED <<port, nsent, cur, out, layout_data, screen_size,
                   display_list_collection, stylist, parallel_traversal,
                   pool_shutdowns, response_port>>
    /\ UNCHANGED taskVars
    /\ UNCHANGED reflowVars

\* Line 431: fail!("Flow construction didn't result in a flow ...")
Construct_FailNoFlow ==
    /\ pc = "construct_take"
    /\ layout_data[RootNode] # None
    /\ layout_data[RootNode][1].kind # "FlowConstructionResult"
    /\ layout_data' = TakeResult(layout_data)
    /\ Fail("fail_no_flow_at_root")
    /\ UNCHANGED <<port, nsent, cur, out, screen_size,
                   display_list_collection, stylist, parallel_traversal,
                   pool_shutdowns, response_port>>
    /\ UNCHANGED taskVars
    /\ UNCHANGED reflowVars

\* FlowTreeVerificationTraversal::process fails on a flow that is neither
\* marked leaf nor marked nonleaf.
VerificationFails(t) ==
    \E f \in Flows(t) : ~t.is_leaf[f] /\ ~t.is_nonleaf[f]

\* verify_flow_tree: the walk in debug builds, nothing in release builds.
Reflow_Verify ==
    /\ pc = "verify"
    /\ IF debug /\ VerificationFails(layout_root[1])
       THEN Fail("fail_flow_tree_verification")
       ELSE pc' = "propagate_damage" /\ UNCHANGED state
    /\ UNCHANGED <<port, nsent, cur, out, layout_data, screen_size,
                   display_list_collection, stylist, parallel_traversal,
                   pool_shutdowns, response_port>>
    /\ UNCHANGED taskVars
    /\ UNCHANGED reflowVars

(***************************************************************************)
(* The traversals of one reflow.  The task steps through them one flow at  *)
(* a time; pc names the traversal in progress.                             *)
(***************************************************************************)
\* Mutant: heights are assigned before widths in both solvers.
PhaseAfter_HeightsBeforeWidths(p) ==
    CASE p = "propagate_damage" -> "compute_damage"
      [] p = "compute_damage" -> "solve"
      [] p = "bubble_widths" -> "assign_heights"
      [] p = "assign_heights" -> "assign_widths"
      [] p = "assign_widths" -> "build_display_list"
      [] p = "par_bubble_widths" -> "par_assign_heights"
      [] p = "par_assign_heights" -> "par_assign_widths"
      [] p = "par_assign_widths" -> "build_display_list"

\* The statement that follows each traversal in handle_reflow,
\* solve_constraints and solve_constraints_parallel.
PhaseAfter(p) ==
    CASE p = "propagate_damage" -> "compute_damage"
      [] p = "compute_damage" -> "solve"
      [] p = "bubble_widths" -> "assign_widths"
      [] p = "assign_widths" -> "assign_heights"
      [] p = "assign_heights" -> "build_display_list"
      [] p = "par_bubble_widths" -> "par_assign_widths"
      [] p = "par_assign_widths" -> "par_assign_heights"
      [] p = "par_assign_heights" -> "build_display_list"

\* A traversal returns once it has reached every flow of the tree.
TraversalComplete(seen, t) == seen = Flows(t)

\* The flow a sequential traversal reaches next.
NextInOrder(order, seen) == order[Cardinality(seen) + 1]

\* One process() call of the sequential traversal `name` running at pc `at`.
SeqStep(at, name, order) ==
    /\ pc = at
    /\ LET t == layout_root[1]
           f == NextInOrder(order, visited[name])
           seen == visited[name] \cup {f}
       IN  /\ visited' = [visited EXCEPT ![name] = seen]
           /\ pc' = IF TraversalComplete(seen, t) THEN PhaseAfter(at) ELSE at
    /\ UNCHANGED <<port, nsent, state, cur, out, layout_data, screen_size,
                   display_list_collection, stylist, parallel_traversal,
                   pool_shutdowns, response_port>>
    /\ UNCHANGED taskVars
    /\ UNCHANGED <<all_style_damage, layout_root, queue, remaining, worker>>

\* Mutant: the full damage is given to the root only.
PropagateDamageProcess_RootOnly(t, damage, f, all) ==
    LET own == IF all /\ f = RootFlow THEN damage[f] \cup DamageAll ELSE damage[f]
        prop == PropagateDown(own)
    IN  [g \in Flows(t) |->
            IF g = f THEN own
            ELSE IF g \in Kids(t, f) /\ prop # {} THEN damage[g] \cup prop
            ELSE damage[g]]

\* PropagateDamageTraversal::process on flow f: the damage of every flow
\* afterwards.
PropagateDamageProcess(t, damage, f, all) ==
    LET own == IF all THEN damage[f] \cup DamageAll ELSE damage[f]
        prop == PropagateDown(own)
    IN  [g \in Flows(t) |->
            IF g = f THEN own
            ELSE IF g \in Kids(t, f) /\ prop # {} THEN damage[g] \cup prop
            ELSE damage[g]]

\* Mutant: the whole damage of a child is added to the parent.
ComputeDamageProcess_Unfiltered(t, damage, f) ==
    [damage EXCEPT ![f] = @ \cup UNION {damage[k] : k \in Kids(t, f)}]

\* ComputeDamageTraversal::process on flow f.
ComputeDamageProcess(t, damage, f) ==
    [damage EXCEPT ![f] = @ \cup UNION {PropagateUp(damage[k]) : k \in Kids(t, f)}]

\* Line 586: PropagateDamageTraversal, preorder.
PropagateDamage_Step ==
    /\ SeqStep("propagate_damage", "propagate_damage", Preorder(layout_root[1], RootFlow))
    /\ restyle_damage' =
           PropagateDamageProcess(layout_root[1], restyle_damage,
               NextInOrder(Preorder(layout_root[1], RootFlow),
                           visited["propagate_damage"]),
               all_style_damage)
    /\ UNCHANGED geometry

\* Line 589: ComputeDamageTraversal, postorder.
ComputeDamage_Step ==
    /\ SeqStep("compute_damage", "compute_damage", Postorder(layout_root[1], RootFlow))
    /\ restyle_damage' =
           ComputeDamageProcess(layout_root[1], restyle_damage,
               NextInOrder(Postorder(layout_root[1], RootFlow),
                           visited["compute_damage"]))
    /\ UNCHANGED geometry

\* The children of f in child order, and what the solver has computed for
\* them so far.
RECURSIVE ChildSeq(_)
ChildSeq(ks) ==
    IF ks = {} THEN <<>>
    ELSE LET k == MinOf(ks) IN <<k>> \o ChildSeq(ks \ {k})

KidValues(t, g, f, field) ==
    LET ks == ChildSeq(Kids(t, f)) IN [i \in 1..Len(ks) |-> g[ks[i]][field]]

\* The solver's per-flow operations.  What a flow computes is kept as the
\* term of its inputs: bubble_widths reads the intrinsic widths of the
\* children, assign_widths the flow's intrinsic widths and the parent's
\* assigned width, assign_height the flow's width and the children's
\* heights, store_overflow the flow's height and the children's overflow.
FlowBubbleWidths(t, g, f) ==
    [g EXCEPT ![f].intrinsic = <<f, KidValues(t, g, f, "intrinsic")>>]

FlowAssignWidths(t, g, f) ==
    [g EXCEPT ![f].width =
        <<f, g[f].intrinsic,
          IF t.parent[f] = 0 THEN Unset ELSE g[t.parent[f]].width>>]

FlowAssignHeight(t, g, f) ==
    [g EXCEPT ![f].height = <<f, g[f].width, KidValues(t, g, f, "height")>>]

FlowStoreOverflow(t, g, f) ==
    [g EXCEPT ![f].overflow = <<f, g[f].height, KidValues(t, g, f, "overflow")>>]

\* Mutant: the parallel solver is entered whether or not there is a pool.
SolverFor_AlwaysParallel(pt) == "solve_parallel"

\* Lines 595-604: the sequential solver without a pool, else the parallel.
SolverFor(pt) == IF pt = None THEN "bubble_widths" ELSE "solve_parallel"

Solve_Dispatch ==
    /\ pc = "solve"
    /\ pc' = SolverFor(parallel_traversal)
    /\ UNCHANGED <<port, nsent, state, cur, out, layout_data, screen_size,
                   display_list_collection, stylist, parallel_traversal,
                   pool_shutdowns, response_port>>
    /\ UNCHANGED taskVars
    /\ UNCHANGED reflowVars

\* solve_constraints, line 449: BubbleWidthsTraversal, postorder.
BubbleWidths_Step ==
    /\ SeqStep("bubble_widths", "bubble_widths", Postorder(layout_root[1], RootFlow))
    /\ geometry' =
           FlowBubbleWidths(layout_root[1], geometry,
               NextInOrder(Postorder(layout_root[1], RootFlow),
                           visited["bubble_widths"]))
    /\ UNCHANGED restyle_damage

\* Lines 457 and 489: AssignWidthsTraversal, preorder, on the task itself.
AssignWidths_Step ==
    /\ \E at \in {"assign_widths", "par_assign_widths"} :
          SeqStep(at, "assign_widths", Preorder(layout_root[1], RootFlow))
    /\ geometry' =
           FlowAssignWidths(layout_root[1], geometry,
               NextInOrder(Preorder(layout_root[1], RootFlow),
                           visited["assign_widths"]))
    /\ UNCHANGED restyle_damage

\* Mutant: the pass processes every flow.
ShouldProcessHeights_Always(t, f) == TRUE

\* AssignHeightsAndStoreOverflowTraversal::should_process
ShouldProcessHeights(t, f) == ~t.inorder[f]

\* The flows whose assign_height and store_overflow have run once the
\* traversal has also reached f.
HeightsAfter(t, done, f) ==
    IF ShouldProcessHeights(t, f) THEN done \cup {f} ELSE done

\* AssignHeightsAndStoreOverflowTraversal on flow f: process() when
\* should_process() allows it.
AssignHeightsAndStoreOverflow(t, g, f) ==
    IF ShouldProcessHeights(t, f)
    THEN FlowStoreOverflow(t, FlowAssignHeight(t, g, f), f)
    ELSE g

\* solve_constraints, line 464: the heights traversal, postorder.
AssignHeights_Step ==
    /\ pc = "assign_heights"
    /\ LET t == layout_root[1]
           f == NextInOrder(Postorder(t, RootFlow), visited["assign_heights"])
           seen == visited["assign_heights"] \cup {f}
       IN  /\ visited' = [visited EXCEPT
                  !["assign_heights"] = seen,
                  !["height_assigned"] = HeightsAfter(t, @, f)]
           /\ geometry' = AssignHeightsAndStoreOverflow(t, geometry, f)
           /\ pc' = IF TraversalComplete(seen, t)
                    THEN PhaseAfter("assign_heights") ELSE pc
    /\ UNCHANGED <<port, nsent, state, cur, out, layout_data, screen_size,
                   display_list_collection, stylist, parallel_traversal,
                   pool_shutdowns, response_port>>
    /\ UNCHANGED taskVars
    /\ UNCHANGED <<all_style_damage, layout_root, queue, remaining, worker,
                   restyle_damage>>

(***************************************************************************)
(* solve_constraints_parallel: parallel::traverse_flow_tree seeds the work *)
(* queue with the flow leaf set; a worker processes the flow it holds,     *)
(* then counts itself off at the parent and goes on with the parent when   *)
(* it was the last child to arrive.                                        *)
(***************************************************************************)
ParPhases == {"par_bubble_widths", "par_assign_heights"}
ParTraversal(p) ==
    IF p = "par_bubble_widths" THEN "bubble_widths" ELSE "assign_heights"

AllIdle == \A w \in Workers : worker[w] = 0

\* Lines 476-478: the match on self.parallel_traversal.
Par_Enter ==
    /\ pc = "solve_parallel"
    /\ IF parallel_traversal = None
       THEN Fail("fail_no_parallel_traversal")
       ELSE pc' = "par_bubble_widths" /\ UNCHANGED state
    /\ UNCHANGED <<port, nsent, cur, out, layout_data, screen_size,
                   display_list_collection, stylist, parallel_traversal,
                   pool_shutdowns, response_port>>
    /\ UNCHANGED taskVars
    /\ UNCHANGED reflowVars

\* traverse_flow_tree pushes every leaf and runs the queue.
Par_Seed ==
    /\ pc \in ParPhases
    /\ visited[ParTraversal(pc)] = {}
    /\ queue = {}
    /\ AllIdle
    /\ queue' = LeafSet(layout_root[1])
    /\ UNCHANGED <<port, nsent, state, pc, cur, out, layout_data, screen_size,
                   display_list_collection, stylist, parallel_traversal,
                   pool_shutdowns, response_port>>
    /\ UNCHANGED taskVars
    /\ UNCHANGED <<all_style_damage, layout_root, visited, remaining, worker,
                   restyle_damage, geometry>>

\* A worker takes a flow off the queue.
Worker_Take(w) ==
    /\ pc \in ParPhases
    /\ worker[w] = 0
    /\ \E f \in queue :
          /\ queue' = queue \ {f}
          /\ worker' = [worker EXCEPT ![w] = f]
    /\ UNCHANGED <<port, nsent, state, pc, cur, out, layout_data, screen_size,
                   display_list_collection, stylist, parallel_traversal,
                   pool_shutdowns, response_port>>
    /\ UNCHANGED taskVars
    /\ UNCHANGED <<all_style_damage, layout_root, visited, remaining,
                   restyle_damage, geometry>>

\* Mutant: no arrival counts as the last one.
LastChild_Never(count) == count = 0

\* Mutant: every arrival counts as the last one.
LastChild_Always(count) == count >= 1

\* The worker goes on with the parent when the count it found there was 1.
LastChild(count) == count = 1

\* Mutant: the child count is left at zero after the flow was processed.
ResetChildrenCount_Zero(t, f) == 0

\* The child count a processed flow is given back for the next traversal.
ResetChildrenCount(t, f) == Cardinality(Kids(t, f))

\* A worker processes the flow it holds, resets the flow's child count and
\* counts itself off at the parent (fetch_sub).
Worker_Process(w) ==
    /\ pc \in ParPhases
    /\ worker[w] # 0
    /\ LET t == layout_root[1]
           f == worker[w]
           p == t.parent[f]
           name == ParTraversal(pc)
       IN  /\ visited' = [visited EXCEPT
                  ![name] = @ \cup {f},
                  !["height_assigned"] =
                      IF name = "assign_heights" THEN HeightsAfter(t, @, f) ELSE @]
           /\ geometry' = IF name = "assign_heights"
                          THEN AssignHeightsAndStoreOverflow(t, geometry, f)
                          ELSE FlowBubbleWidths(t, geometry, f)
           /\ remaining' =
                  [g \in Flows(t) |->
                      IF g = f THEN ResetChildrenCount(t, f)
                      ELSE IF g = p THEN remaining[p] - 1
                      ELSE remaining[g]]
           /\ worker' = [worker EXCEPT
                  ![w] = IF p # 0 /\ LastChild(remaining[p]) THEN p ELSE 0]
    /\ UNCHANGED <<port, nsent, state, pc, cur, out, layout_data, screen_size,
                   display_list_collection, stylist, parallel_traversal,
                   pool_shutdowns, response_port>>
    /\ UNCHANGED taskVars
    /\ UNCHANGED <<all_style_damage, layout_root, queue, restyle_damage>>

\* The queue has run dry and every worker is idle: traverse_flow_tree returns.
Par_Return ==
    /\ pc \in ParPhases
    /\ visited[ParTraversal(pc)] # {}
    /\ queue = {}
    /\ AllIdle
    /\ pc' = PhaseAfter(pc)
    /\ UNCHANGED <<port, nsent, state, cur, out, layout_data, screen_size,
                   display_list_collection, stylist, parallel_traversal,
                   pool_shutdowns, response_port>>
    /\ UNCHANGED taskVars
    /\ UNCHANGED reflowVars

(***************************************************************************)
(* The end of handle_reflow: display list, destroy, acknowledgements.      *)
(***************************************************************************)
RenderMsg(collection, color) ==
    [type |-> "RenderMsg", display_list_collection |-> collection,
     color |-> color]

\* Mutant: the colour of any element is a candidate.
IsRootCandidate_AnyElement(type_id) == TRUE

\* Lines 625-626: only html and body elements are looked at.
IsRootCandidate(type_id) ==
    type_id \in {"HTMLHtmlElementTypeId", "HTMLBodyElementTypeId"}

\* Lines 622-645: the loop over the document from its i-th node on; the
\* first candidate whose colour is not rgba(0, 0, 0, 0) ends the loop.
RECURSIVE BackgroundColorFrom(_, _)
BackgroundColorFrom(document, i) ==
    IF i > Len(document) THEN White
    ELSE IF /\ IsRootCandidate(document[i].type_id)
            /\ document[i].background_color # rgba(0, 0, 0, 0)
         THEN document[i].background_color
         ELSE BackgroundColorFrom(document, i + 1)

BackgroundColor(document) == BackgroundColorFrom(document, 1)

\* Mutant: the display list is built whatever the goal.
BuildsDisplayList_Always(goal) == TRUE

\* Line 608: the display list is built only for a display reflow.
BuildsDisplayList(goal) == goal = "ReflowForDisplay"

\* Lines 654-658: what is cached and what goes to the renderer when the
\* builder has produced collection c.
CachedAfterBuild(c) == Some(c)
RenderSends(c, color) == <<Sent("render_chan", RenderMsg(c, color))>>

Reflow_BuildDisplayList ==
    /\ pc = "build_display_list"
    /\ IF BuildsDisplayList(cur.goal)
       THEN \E c \in BuiltCollections :
               /\ display_list_collection' = CachedAfterBuild(c)
               /\ out' = out \o RenderSends(c, BackgroundColor(cur.document_root))
       ELSE UNCHANGED <<display_list_collection, out>>
    /\ pc' = "destroy"
    /\ UNCHANGED <<port, nsent, state, cur, layout_data, screen_size, stylist,
                   parallel_traversal, pool_shutdowns, response_port>>
    /\ UNCHANGED taskVars
    /\ UNCHANGED reflowVars

\* Mutant: the tree outlives the reflow that built it.
Reflow_Destroy_KeepsTree ==
    /\ pc = "destroy"
    /\ pc' = "script_join"
    /\ UNCHANGED <<port, nsent, state, cur, out, layout_data, screen_size,
                   display_list_collection, stylist, parallel_traversal,
                   pool_shutdowns, response_port>>
    /\ UNCHANGED taskVars
    /\ UNCHANGED reflowVars

\* Line 662: layout_root.destroy(self.flow_leaf_set.get())
Reflow_Destroy ==
    /\ pc = "destroy"
    /\ layout_root' = None
    /\ visited' = NoVisits
    /\ remaining' = <<>>
    /\ restyle_damage' = <<>>
    /\ geometry' = <<>>
    /\ pc' = "script_join"
    /\ UNCHANGED <<port, nsent, state, cur, out, layout_data, screen_size,
                   display_list_collection, stylist, parallel_traversal,
                   pool_shutdowns, response_port>>
    /\ UNCHANGED taskVars
    /\ UNCHANGED <<all_style_damage, queue, worker>>

\* Mutant: the join signal is forgotten.
JoinSends_Nothing == <<>>

\* Line 668: data.script_join_chan.send(())
JoinSends == <<Sent("script_join_chan", [type |-> "Join"])>>

Reflow_Join ==
    /\ pc = "script_join"
    /\ out' = out \o JoinSends
    /\ pc' = "script_complete"
    /\ UNCHANGED <<port, nsent, state, cur, layout_data, screen_size,
                   display_list_collection, stylist, parallel_traversal,
                   pool_shutdowns, response_port>>
    /\ UNCHANGED taskVars
    /\ UNCHANGED reflowVars

\* Line 669: data.script_chan.send(ReflowCompleteMsg(self.id, data.id))
ReflowCompleteMsg(pipeline, reflow_id) ==
    [type |-> "ReflowCompleteMsg", pipeline |-> pipeline, id |-> reflow_id]
CompleteSends(pipeline, data) ==
    <<Sent("script_chan", ReflowCompleteMsg(pipeline, data.id))>>

\* handle_reflow returns and handle_request returns true.
Reflow_Complete ==
    /\ pc = "script_complete"
    /\ out' = out \o CompleteSends(id, cur)
    /\ all_style_damage' = FALSE
    /\ pc' = "recv"
    /\ UNCHANGED <<port, nsent, state, cur, layout_data, screen_size,
                   display_list_collection, stylist, parallel_traversal,
                   pool_shutdowns, response_port>>
    /\ UNCHANGED taskVars
    /\ UNCHANGED <<layout_root, visited, queue, remaining, worker,
                   restyle_damage, geometry>>

(***************************************************************************)
(* handle_query                                                            *)
(***************************************************************************)
\* Mutant: the scan does not descend into the children of an item.
RECURSIVE union_boxes_flat(_, _, _)
union_boxes_flat(accumulator, list, node) ==
    IF list = <<>> THEN accumulator
    ELSE LET item == Head(list)
             acc == IF item.extra = node
                    THEN IF accumulator = None THEN Some(item.bounds)
                         ELSE Some(RectUnion(accumulator[1], item.bounds))
                    ELSE accumulator
         IN  union_boxes_flat(acc, Tail(list), node)

\* union_boxes_for_node: the accumulator after the items of `list`, each
\* item's children before the item itself.
RECURSIVE union_boxes_for_node(_, _, _)
union_boxes_for_node(accumulator, list, node) ==
    IF list = <<>> THEN accumulator
    ELSE LET item == Head(list)
             inner == union_boxes_for_node(accumulator, Children(item), node)
             acc == IF item.extra = node
                    THEN IF inner = None THEN Some(item.bounds)
                         ELSE Some(RectUnion(inner[1], item.bounds))
                    ELSE inner
         IN  union_boxes_for_node(acc, Tail(list), node)

\* Lines 696-699: the loop over the lists of the collection.
RECURSIVE UnionOverLists(_, _, _)
UnionOverLists(rect, lists, node) ==
    IF lists = <<>> THEN rect
    ELSE UnionOverLists(union_boxes_for_node(rect, Head(lists), node),
                        Tail(lists), node)

\* rect.unwrap_or(Au::zero_rect())
UnwrapOrZero(rect) == IF rect = None THEN ZeroRect ELSE rect[1]

ContentBoxResponse(collection, node) ==
    [type |-> "ContentBoxResponse",
     rect |-> UnwrapOrZero(UnionOverLists(None, collection, node))]

\* Mutant: a rectangle already in the accumulator is not pushed again.
RECURSIVE add_boxes_once(_, _, _)
add_boxes_once(accumulator, list, node) ==
    IF list = <<>> THEN accumulator
    ELSE LET item == Head(list)
             inner == add_boxes_once(accumulator, Children(item), node)
             acc == IF item.extra = node
                       /\ \A i \in DOMAIN inner : inner[i] # item.bounds
                    THEN Append(inner, item.bounds)
                    ELSE inner
         IN  add_boxes_once(acc, Tail(list), node)

\* add_boxes_for_node
RECURSIVE add_boxes_for_node(_, _, _)
add_boxes_for_node(accumulator, list, node) ==
    IF list = <<>> THEN accumulator
    ELSE LET item == Head(list)
             inner == add_boxes_for_node(accumulator, Children(item), node)
             acc == IF item.extra = node THEN Append(inner, item.bounds)
                    ELSE inner
         IN  add_boxes_for_node(acc, Tail(list), node)

RECURSIVE AddOverLists(_, _, _)
AddOverLists(boxes, lists, node) ==
    IF lists = <<>> THEN boxes
    ELSE AddOverLists(add_boxes_for_node(boxes, Head(lists), node),
                      Tail(lists), node)

ContentBoxesResponse(collection, node) ==
    [type |-> "ContentBoxesResponse",
     boxes |-> AddOverLists(<<>>, collection, node)]

\* Lines 747-750: the point lies inside the bounds.
Contains(bounds, x, y) ==
    /\ x < bounds.x + bounds.w
    /\ bounds.x <= x
    /\ y < bounds.y + bounds.h
    /\ bounds.y <= y

\* hit_test: first the child lists of the clip items, last item first;
\* then the other items, last item first.
RECURSIVE hit_test(_, _, _), HitTestClips(_, _, _, _), HitTestItems(_, _, _, _)
HitTestClips(x, y, list, i) ==
    IF i = 0 THEN None
    ELSE IF list[i].class = "Clip"
         THEN LET ret == hit_test(x, y, list[i].child_list)
              IN  IF ret # None THEN ret ELSE HitTestClips(x, y, list, i - 1)
         ELSE HitTestClips(x, y, list, i - 1)
HitTestItems(x, y, list, i) ==
    IF i = 0 THEN None
    ELSE IF list[i].class = "Clip" THEN HitTestItems(x, y, list, i - 1)
    ELSE IF Contains(list[i].bounds, x, y) THEN Some(list[i].extra)
    ELSE HitTestItems(x, y, list, i - 1)
\* Mutant: the items of the list itself are tried before its clips.
hit_test_ItemsFirst(x, y, list) ==
    LET ret == HitTestItems(x, y, list, Len(list))
    IN  IF ret # None THEN ret ELSE HitTestClips(x, y, list, Len(list))

hit_test(x, y, list) ==
    LET ret == HitTestClips(x, y, list, Len(list))
    IN  IF ret # None THEN ret ELSE HitTestItems(x, y, list, Len(list))

\* Lines 760-769: the lists from the last to the first; the first hit wins.
RECURSIVE HitOverLists(_, _, _, _)
HitOverLists(x, y, lists, i) ==
    IF i = 0 THEN None
    ELSE LET resp == hit_test(x, y, lists[i])
         IN  IF resp # None THEN resp ELSE HitOverLists(x, y, lists, i - 1)

HitTestReply(collection, point) ==
    LET resp == HitOverLists(FromPx(point[1]), FromPx(point[2]),
                             collection, Len(collection))
    IN  IF resp # None
        THEN [type |-> "Ok", response |-> [type |-> "HitTestResponse", node |-> resp[1]]]
        ELSE [type |-> "Err"]

\* The reply handle_query sends for query q against the cached collection.
QueryReply(collection, q) ==
    CASE q.kind = "ContentBoxQuery" -> ContentBoxResponse(collection, q.node)
      [] q.kind = "ContentBoxesQuery" -> ContentBoxesResponse(collection, q.node)
      [] q.kind = "HitTestQuery" -> HitTestReply(collection, q.point)

QuerySends(collection, q) == <<Sent("reply_chan", QueryReply(collection, q))>>

\* QueryMsg: handle_query; unwrap() fails when nothing is cached.
HandleQueryMsg ==
    /\ Recv("QueryMsg")
    /\ IF display_list_collection = None
       THEN /\ Fail("fail_unwrap_none")
            /\ out' = <<>>
       ELSE /\ out' = QuerySends(display_list_collection[1], Head(port))
            /\ UNCHANGED <<state, pc>>
    /\ UNCHANGED <<layout_data, screen_size, display_list_collection, stylist,
                   parallel_traversal, pool_shutdowns, response_port>>
    /\ UNCHANGED taskVars
    /\ UNCHANGED reflowVars

(***************************************************************************)
(* The specifications.                                                     *)
(***************************************************************************)
TaskStep ==
    \/ HandleAddStylesheet
    \/ HandleReapLayoutData
    \/ HandleReflowMsg
    \/ HandleQueryMsg
    \/ HandlePrepareToExitMsg
    \/ HandleExitNowMsg
    \/ PrepareToExit_Pong
    \/ PrepareToExit_Reap
    \/ PrepareToExit_ExitNow
    \/ PrepareToExit_Fail
    \/ ExitNow_Shutdown
    \/ ExitNow_Send
    \/ ExitNow_Return
    \/ Reflow_Begin
    \/ Reflow_Match
    \/ Construct_Traverse
    \/ Construct_TakeFlow
    \/ Construct_FailNoLayoutData
    \/ Construct_FailNoFlow
    \/ Reflow_Verify
    \/ PropagateDamage_Step
    \/ ComputeDamage_Step
    \/ Solve_Dispatch
    \/ BubbleWidths_Step
    \/ AssignWidths_Step
    \/ AssignHeights_Step
    \/ Par_Enter
    \/ Par_Seed
    \/ (\E w \in Workers : Worker_Take(w))
    \/ (\E w \in Workers : Worker_Process(w))
    \/ Par_Return
    \/ Reflow_BuildDisplayList
    \/ Reflow_Destroy
    \/ Reflow_Join
    \/ Reflow_Complete

Next ==
    \/ (\E m \in Msgs(nsent) : Send(m))
    \/ Renderer_AckExit
    \/ TaskStep

Spec == Init /\ [][Next]_vars

\* The task always takes its next step and the renderer answers requests.
FairSpec == Spec /\ WF_vars(TaskStep) /\ WF_vars(Renderer_AckExit)

(***************************************************************************)
(* The query resolver on its own: a running task that has cached some      *)
(* collection, and one query still to come.                                *)
(***************************************************************************)
QueryRects == {RA, RB}
QueryLabels == Nodes \X QueryRects
QItem(l) == Item(l[1], l[2])
QClip(l, kids) == Clip(l[1], l[2], kids)

\* Two lists; the first holds an item and a clip whose child list holds an
\* item and a second clip with an item of its own.  Every item carries any
\* node and any of the rectangles.
QueryCollections ==
    { << <<QItem(a), QClip(b, <<QItem(c), QClip(d, <<QItem(e)>>)>>)>>,
         <<QItem(f)>> >> :
        a \in QueryLabels, b \in QueryLabels, c \in QueryLabels,
        d \in QueryLabels, e \in QueryLabels, f \in QueryLabels }
    \cup BuiltCollections

\* Two lists; the first holds an item, a clip with two items and an item
\* painted after the clip.
HitCollections ==
    { << <<QItem(a), QClip(b, <<QItem(c), QItem(d)>>), QItem(e)>>,
         <<QItem(f)>> >> :
        a \in QueryLabels, b \in QueryLabels, c \in QueryLabels,
        d \in QueryLabels, e \in QueryLabels, f \in QueryLabels }

InitQuery ==
    /\ id \in PipelineIds
    /\ port = <<>>
    /\ nsent = MaxMsgs - 1
    /\ state = "Running"
    /\ pc = "recv"
    /\ cur = NoMsg
    /\ out = <<>>
    /\ layout_data = [n \in Nodes |-> None]
    /\ screen_size = Size2D(0, 0)
    /\ display_list_collection \in
           {Some(c) : c \in QueryCollections \cup HitCollections}
    /\ stylist = 0
    /\ layout_threads = 1
    /\ parallel_traversal = ParallelTraversalFor(layout_threads)
    /\ pool_shutdowns = 0
    /\ debug = FALSE
    /\ all_style_damage = FALSE
    /\ layout_root = None
    /\ visited = NoVisits
    /\ queue = {}
    /\ remaining = <<>>
    /\ worker = [w \in Workers |-> 0]
    /\ restyle_damage = <<>>
    /\ geometry = <<>>
    /\ response_port = "none"

NextQuery ==
    \/ (\E q \in Queries : Send(q))
    \/ HandleQueryMsg

SpecQuery == InitQuery /\ [][NextQuery]_vars

(***************************************************************************)
(* Damage propagation on its own: a reflow that has just built and         *)
(* verified a flow tree whose flows carry any restyle damage.              *)
(***************************************************************************)
\* A tree of the given shape with the leaf flags the constructor sets.
Shaped(parent) ==
    LET n == Len(parent)
        leaf == [f \in 1..n |-> \A k \in 1..n : parent[k] # f]
    IN  Tree(parent, leaf, [f \in 1..n |-> ~leaf[f]], [f \in 1..n |-> FALSE])

\* A chain of three flows, and a root with a leaf child and a child that
\* has a child of its own.
DamageShapes == {Shaped(<<0, 1, 2>>), Shaped(<<0, 1, 2, 1>>)}

InitDamage ==
    /\ id \in PipelineIds
    /\ port = <<>>
    /\ nsent = MaxMsgs
    /\ state = "Running"
    /\ pc = "propagate_damage"
    /\ all_style_damage \in BOOLEAN
    /\ cur = ReflowMsg(<<>>, "ReflowForScriptQuery",
                       IF all_style_damage THEN "ContentChangedDocumentDamage"
                       ELSE "ReflowDocumentDamage",
                       <<1, 1>>, MaxMsgs)
    /\ out = <<>>
    /\ layout_data = [n \in Nodes |-> Some(NoConstructionResult)]
    /\ screen_size = CurrentScreenSize(<<1, 1>>)
    /\ display_list_collection = None
    /\ stylist = 0
    /\ layout_threads = 1
    /\ parallel_traversal = ParallelTraversalFor(layout_threads)
    /\ pool_shutdowns = 0
    /\ debug = FALSE
    /\ \E t \in DamageShapes :
          \E d \in [Flows(t) -> SUBSET RestyleEffects] :
              /\ layout_root = Some(MarkAsRoot(Damaged(t, d)))
              /\ restyle_damage = d
              /\ geometry = Unsolved(t)
              /\ remaining = ChildrenCount(t)
    /\ visited = NoVisits
    /\ queue = {}
    /\ worker = [w \in Workers |-> 0]
    /\ response_port = "none"

NextDamage ==
    \/ PropagateDamage_Step
    \/ ComputeDamage_Step

SpecDamage == InitDamage /\ [][NextDamage]_vars

(***************************************************************************)
(* The constraint solvers on their own: a reflow that has built a flow     *)
(* tree and propagated damage, with or without a pool.                     *)
(***************************************************************************)
WithInorder(t, flows) == [t EXCEPT !.inorder = [f \in Flows(t) |-> f \in flows]]

\* A chain of three flows, a root with three leaves, a four-flow tree and
\* a five-flow tree with two inner flows; no flow, the third flow or the
\* second flow is processed in order.
SolveShapes == {<<0, 1, 2>>, <<0, 1, 1, 1>>, <<0, 1, 2, 1>>, <<0, 1, 2, 2, 1>>}
SolveTrees ==
    {WithInorder(Shaped(p), flows) : p \in SolveShapes, flows \in {{}, {3}, {2}}}

\* The worker counts considered when the solvers are checked on their own.
SolveThreadCounts == {1, 2, 3}

InitSolve ==
    /\ id \in PipelineIds
    /\ port = <<>>
    /\ nsent = MaxMsgs
    /\ state = "Running"
    /\ pc = "solve"
    /\ all_style_damage = FALSE
    /\ cur = ReflowMsg(<<>>, "ReflowForScriptQuery", "ReflowDocumentDamage",
                       <<1, 1>>, MaxMsgs)
    /\ out = <<>>
    /\ layout_data = [n \in Nodes |-> Some(NoConstructionResult)]
    /\ screen_size = CurrentScreenSize(<<1, 1>>)
    /\ display_list_collection = None
    /\ stylist = 0
    /\ layout_threads \in SolveThreadCounts
    /\ parallel_traversal = ParallelTraversalFor(layout_threads)
    /\ pool_shutdowns = 0
    /\ debug = FALSE
    /\ \E t \in SolveTrees :
          /\ layout_root = Some(MarkAsRoot(t))
          /\ restyle_damage = t.restyle_damage
          /\ geometry = Unsolved(t)
          /\ remaining = ChildrenCount(t)
          /\ visited = [NoVisits EXCEPT !["propagate_damage"] = Flows(t),
                                         !["compute_damage"] = Flows(t)]
    /\ queue = {}
    /\ worker = [w \in Workers |-> 0]
    /\ response_port = "none"

NextSolve ==
    \/ Solve_Dispatch
    \/ BubbleWidths_Step
    \/ AssignWidths_Step
    \/ AssignHeights_Step
    \/ Par_Enter
    \/ Par_Seed
    \/ (\E w \in Workers : Worker_Take(w))
    \/ (\E w \in Workers : Worker_Process(w))
    \/ Par_Return

SpecSolve == InitSolve /\ [][NextSolve]_vars

(***************************************************************************)
(* Verification on its own: a reflow, in a debug or a release build, that  *)
(* has just constructed a flow tree whose flows carry any combination of   *)
(* the leaf and nonleaf flags.                                             *)
(***************************************************************************)
InitVerify ==
    /\ id \in PipelineIds
    /\ port = <<>>
    /\ nsent = MaxMsgs
    /\ state = "Running"
    /\ pc = "verify"
    /\ all_style_damage = FALSE
    /\ cur = ReflowMsg(<<>>, "ReflowForScriptQuery", "ReflowDocumentDamage",
                       <<1, 1>>, MaxMsgs)
    /\ out = <<>>
    /\ layout_data = [n \in Nodes |-> Some(NoConstructionResult)]
    /\ screen_size = CurrentScreenSize(<<1, 1>>)
    /\ display_list_collection = None
    /\ stylist = 0
    /\ layout_threads = 1
    /\ parallel_traversal = ParallelTraversalFor(layout_threads)
    /\ pool_shutdowns = 0
    /\ debug \in BOOLEAN
    /\ \E parent \in {<<0, 1, 1>>, <<0, 1, 2>>} :
          \E leaf \in [1..3 -> BOOLEAN] : \E nonleaf \in [1..3 -> BOOLEAN] :
             LET t == Tree(parent, leaf, nonleaf, <<FALSE, FALSE, FALSE>>)
             IN  /\ layout_root = Some(MarkAsRoot(t))
                 /\ restyle_damage = t.restyle_damage
                 /\ geometry = Unsolved(t)
                 /\ remaining = ChildrenCount(t)
    /\ visited = NoVisits
    /\ queue = {}
    /\ worker = [w \in Workers |-> 0]
    /\ response_port = "none"

NextVerify ==
    \/ Reflow_Verify
    \/ PropagateDamage_Step
    \/ ComputeDamage_Step

SpecVerify == InitVerify /\ [][NextVerify]_vars

(***************************************************************************)
(* The task with windows of several sizes: besides the messages of the     *)
(* task model the script may ask for a reflow of an empty window or of a   *)
(* window that is wider than it is high.                                   *)
(***************************************************************************)
ResizedWindowSizes == {<<0, 0>>, <<2, 1>>}

NextResize ==
    \/ (\E m \in Msgs(nsent) : Send(m))
    \/ (\E d \in TaskDocuments, g \in Goals, l \in Levels, s \in ResizedWindowSizes :
           Send(ReflowMsg(d, g, l, s, nsent + 1)))
    \/ Renderer_AckExit
    \/ TaskStep

SpecResize == Init /\ [][NextResize]_vars

(***************************************************************************)
(* The end of handle_reflow on its own: a reflow of any document that has  *)
(* just left the solver.                                                   *)
(***************************************************************************)
InitColor ==
    /\ id \in PipelineIds
    /\ port = <<>>
    /\ nsent = MaxMsgs
    /\ state = "Running"
    /\ pc = "build_display_list"
    /\ all_style_damage = FALSE
    /\ \E d \in Documents : \E g \in Goals :
          cur = ReflowMsg(d, g, "ReflowDocumentDamage", <<1, 1>>, MaxMsgs)
    /\ out = <<>>
    /\ layout_data = [n \in Nodes |-> Some(NoConstructionResult)]
    /\ screen_size = CurrentScreenSize(<<1, 1>>)
    /\ display_list_collection = None
    /\ stylist = 0
    /\ layout_threads = 1
    /\ parallel_traversal = ParallelTraversalFor(layout_threads)
    /\ pool_shutdowns = 0
    /\ debug = FALSE
    /\ LET t == Shaped(<<0, 1, 2>>)
       IN  /\ layout_root = Some(MarkAsRoot(t))
           /\ restyle_damage = t.restyle_damage
           /\ geometry = Unsolved(t)
           /\ remaining = ChildrenCount(t)
           /\ visited = [name \in DOMAIN NoVisits |-> Flows(t)]
    /\ queue = {}
    /\ worker = [w \in Workers |-> 0]
    /\ response_port = "none"

NextColor ==
    \/ Reflow_BuildDisplayList
    \/ Reflow_Destroy
    \/ Reflow_Join
    \/ Reflow_Complete

SpecColor == InitColor /\ [][NextColor]_vars

(***************************************************************************)
(* Properties.                                                             *)
(***************************************************************************)
\* A step that takes a message off the port.
Receives == Len(port') < Len(port)

\* The entries of a sequence of sends that went to one of the channels.
SentOn(sends, chans) == SelectSeq(sends, LAMBDA e : e.chan \in chans)

\* What the task owns besides its control state.
owned == <<layout_data, screen_size, display_list_collection, stylist,
           parallel_traversal, pool_shutdowns, response_port, all_style_damage,
           layout_root, visited, queue, remaining, worker, restyle_damage,
           geometry>>

\* C1: in the PreparingToExit state, receiving any message other than
\* ReapLayoutData or ExitNow terminates the task fatally: the message is
\* not processed, nothing is sent for it, no reflow or query runs, and a
\* failed task never does anything again.
C1_FatalAfterPrepareToExit ==
    /\ [][(state = "PreparingToExit" /\ Receives
            /\ Head(port).type \notin {"ReapLayoutDataMsg", "ExitNowMsg"})
          => /\ state' = "Failed"
             /\ pc' = "fail_message_after_prepare_to_exit"
             /\ out' = out
             /\ UNCHANGED owned]_vars
    /\ [][state = "Failed"
          => /\ ~Receives
             /\ UNCHANGED <<state, pc, cur, out>>
             /\ UNCHANGED owned]_vars

C1_Witness ==
    /\ state = "Failed"
    /\ pc = "fail_message_after_prepare_to_exit"
    /\ cur.type = "ReflowMsg"
    /\ out = PongSends

\* C2: a ReapLayoutData message received in Running or in PreparingToExit
\* empties the layout data slot of its node and of no other node, and
\* leaves the task waiting for the next message in the state it was in.
C2_ReapHonoredInBothStates ==
    [][(Receives /\ Head(port).type = "ReapLayoutDataMsg"
        /\ state \in {"Running", "PreparingToExit"})
      => /\ layout_data'[Head(port).node] = None
         /\ \A n \in Nodes \ {Head(port).node} : layout_data'[n] = layout_data[n]
         /\ state' = state
         /\ pc' = "recv"]_vars

C2_Witness ==
    /\ state = "PreparingToExit"
    /\ pc = "recv"
    /\ cur = ReapLayoutDataMsg("n1")
    /\ layout_data["n1"] = None
    /\ layout_data["n2"] # None

\* C3: the PrepareToExit acknowledgement is sent exactly once, as the first
\* thing the handler does: before the task is in the PreparingToExit state
\* and before it takes any further message off its port.
C3_PongSentImmediately ==
    /\ [](state = "PreparingToExit" =>
             /\ SentOn(out, {"response_chan"}) = PongSends
             /\ out # <<>>
             /\ out[1] = Sent("response_chan", [type |-> "Pong"]))
    /\ [](pc = "prepare_to_exit" => state = "Running" /\ out = <<>>)
    /\ [][pc = "prepare_to_exit" =>
             /\ ~Receives
             /\ (pc' # pc => out' = PongSends /\ state' = "PreparingToExit")]_vars

C3_Witness ==
    /\ state = "PreparingToExit"
    /\ pc = "recv"
    /\ out = PongSends
    /\ port # <<>>

\* C4: on ExitNow, received in either state, the pool (if there is one) is
\* shut down before the exit request goes to the renderer, and the message
\* loop has returned only when the renderer's acknowledgement has arrived.
ExitRequested == SentOn(out, {"render_chan"}) # <<>>
                 /\ out[Len(out)] = Sent("render_chan", [type |-> "ExitMsg"])

C4_ExitHandshake ==
    /\ (pc = "exit_send" =>
           /\ response_port = "none"
           /\ (parallel_traversal # None => pool_shutdowns = 1))
    /\ (response_port # "none" =>
           /\ ExitRequested
           /\ (parallel_traversal # None => pool_shutdowns = 1))
    /\ (pc = "exit_wait" => state \in {"Running", "PreparingToExit"})
    /\ (state = "Exited" => response_port = "acked")

C4_Witness ==
    /\ state = "Exited"
    /\ parallel_traversal # None
    /\ pool_shutdowns = 1
    /\ out = PongSends \o <<Sent("render_chan", [type |-> "ExitMsg"])>>

\* C5: once exit_now has been entered, from Running or from
\* PreparingToExit, the task reaches Exited (given that the task keeps
\* running and the renderer answers); once Exited it never takes another
\* message off the port and never does anything again.
C5_ExitNowTerminates ==
    /\ (pc = "exit_now" ~> state = "Exited")
    /\ [][state = "Exited"
          => /\ ~Receives
             /\ UNCHANGED <<state, pc, cur, out>>
             /\ UNCHANGED owned]_vars

C5_Witness ==
    /\ state = "Exited"
    /\ port # <<>>
    /\ out = PongSends \o <<Sent("render_chan", [type |-> "ExitMsg"])>>

\* C6: a message is taken off the port only when the handler of the
\* previous one has returned: no flow tree exists, no traversal is under
\* way, a handled reflow has sent its two acknowledgements and a handled
\* query its reply.  A flow tree exists only while a reflow is handled (or
\* the task failed in the middle of one).
ReflowPcs ==
    {"reflow", "match", "construct", "construct_take", "verify",
     "propagate_damage", "compute_damage", "solve", "bubble_widths",
     "assign_widths", "assign_heights", "solve_parallel", "par_bubble_widths",
     "par_assign_widths", "par_assign_heights", "build_display_list",
     "destroy", "script_join", "script_complete"}

ScriptChans == {"script_join_chan", "script_chan"}

C6_OneMessageAtATime ==
    /\ [][Receives =>
             /\ pc = "recv"
             /\ layout_root = None
             /\ visited = NoVisits
             /\ queue = {}
             /\ AllIdle
             /\ (cur.type = "ReflowMsg" => Len(SentOn(out, ScriptChans)) = 2)
             /\ (cur.type = "QueryMsg" => Len(SentOn(out, {"reply_chan"})) = 1)]_vars
    /\ [](layout_root # None =>
             cur.type = "ReflowMsg" /\ (pc \in ReflowPcs \/ state = "Failed"))
    /\ [](pc \in ReflowPcs => cur.type = "ReflowMsg" /\ state = "Running")

C6_Witness ==
    /\ pc = "par_bubble_widths"
    /\ \E w \in Workers : worker[w] # 0
    /\ port # <<>>
    /\ Head(port).type = "ReflowMsg"

\* C7: within a reflow the phases run in the order construction, damage
\* push, damage pull, bubble widths, assign widths, assign heights,
\* display list: a phase has reached no flow before the phase preceding it
\* has reached every flow of the tree, in both solvers, and the workers
\* run only inside the two parallel phases.
PhaseOrder ==
    <<"propagate_damage", "compute_damage", "bubble_widths", "assign_widths",
      "assign_heights">>

DisplayListBuilt == SentOn(out, {"render_chan"}) # <<>>

C7_PhasesInFixedOrder ==
    /\ (layout_root = None => visited = NoVisits /\ queue = {} /\ AllIdle)
    /\ (layout_root # None =>
          LET all == Flows(layout_root[1]) IN
          /\ \A i \in 2..Len(PhaseOrder) :
                visited[PhaseOrder[i]] # {} => visited[PhaseOrder[i - 1]] = all
          /\ visited["height_assigned"] \subseteq visited["assign_heights"]
          /\ (DisplayListBuilt \/ pc \in {"build_display_list", "destroy"}
                => visited["assign_heights"] = all)
          /\ (queue # {} \/ ~AllIdle =>
                /\ pc \in ParPhases
                /\ pc = "par_bubble_widths" =>
                      visited["compute_damage"] = all /\ visited["assign_widths"] = {}
                /\ pc = "par_assign_heights" => visited["assign_widths"] = all))

C7_Witness ==
    /\ pc = "par_assign_heights"
    /\ layout_root # None
    /\ Len(layout_root[1].parent) = 3
    /\ Cardinality(visited["assign_heights"]) = 1
    /\ \E w \in Workers : worker[w] # 0

\* C8: a reflow whose handling has returned has sent exactly two
\* acknowledgements, the join signal and then ReflowCompleteMsg with this
\* task's pipeline id and the request's id, as the last things it sent;
\* neither is sent while the flow tree still exists, and no other message
\* is answered on these channels.
C8_TwoAcknowledgements ==
    /\ (cur.type = "ReflowMsg" /\ pc = "recv" =>
          /\ SentOn(out, ScriptChans) =
                <<Sent("script_join_chan", [type |-> "Join"]),
                  Sent("script_chan", ReflowCompleteMsg(id, cur.id))>>
          /\ SubSeq(out, Len(out) - 1, Len(out)) = SentOn(out, ScriptChans))
    /\ (cur.type = "ReflowMsg" /\ pc = "script_complete" =>
          SentOn(out, ScriptChans) = <<Sent("script_join_chan", [type |-> "Join"])>>)
    /\ (SentOn(out, ScriptChans) # <<>> =>
          /\ cur.type = "ReflowMsg"
          /\ pc \in {"script_complete", "recv"}
          /\ layout_root = None)

C8_Witness ==
    /\ pc = "recv"
    /\ cur.type = "ReflowMsg"
    /\ cur.goal = "ReflowForScriptQuery"
    /\ cur.level = "ReflowDocumentDamage"
    /\ Len(out) = 2

\* C9: the cached collection changes only in the display-list step of a
\* ReflowForDisplay reflow, which caches the collection it sends to the
\* renderer; a reflow with another goal sends the renderer nothing; a
\* query starts no reflow and sends the renderer nothing.
C9_CacheChangesOnlyOnDisplayReflow ==
    /\ [][display_list_collection' # display_list_collection =>
             /\ pc = "build_display_list"
             /\ cur.type = "ReflowMsg"
             /\ cur.goal = "ReflowForDisplay"]_vars
    /\ [][pc = "build_display_list" /\ pc' # pc =>
             IF cur.goal = "ReflowForDisplay"
             THEN /\ display_list_collection' # None
                  /\ Len(out') = Len(out) + 1
                  /\ SubSeq(out', 1, Len(out)) = out
                  /\ out'[Len(out')].chan = "render_chan"
                  /\ out'[Len(out')].msg.type = "RenderMsg"
                  /\ out'[Len(out')].msg.display_list_collection =
                         display_list_collection'[1]
             ELSE /\ display_list_collection' = display_list_collection
                  /\ out' = out]_vars
    /\ [][Receives /\ Head(port).type = "QueryMsg" =>
             /\ pc' \in {"recv", "fail_unwrap_none", "fail_message_after_prepare_to_exit"}
             /\ layout_root' = None
             /\ SentOn(out', {"render_chan"}) = <<>>]_vars

C9_Witness ==
    /\ pc = "destroy"
    /\ cur.goal = "ReflowForScriptQuery"
    /\ display_list_collection # None
    /\ display_list_collection[1] # << <<>> >>

\* C10: the reply to ContentBox(node) is the bounding box of exactly the
\* display items tagged with that node, in any list of the cached
\* collection and at any depth below clip items, and the zero rectangle
\* when no item is tagged with it.
RECURSIVE ItemsIn(_)
ItemsIn(list) ==
    UNION { {list[i]} \cup (IF list[i].class = "Clip"
                             THEN ItemsIn(list[i].child_list) ELSE {}) :
            i \in DOMAIN list }

ItemsOfCollection(c) == UNION {ItemsIn(c[i]) : i \in DOMAIN c}

TaggedWith(c, node) == {it \in ItemsOfCollection(c) : it.extra = node}

BoundingBox(items) ==
    IF items = {} THEN ZeroRect
    ELSE LET x0 == MinOf({it.bounds.x : it \in items})
             y0 == MinOf({it.bounds.y : it \in items})
             x1 == MaxOf({it.bounds.x + it.bounds.w : it \in items})
             y1 == MaxOf({it.bounds.y + it.bounds.h : it \in items})
         IN  Rect(x0, y0, x1 - x0, y1 - y0)

ContentBoxAnswered ==
    /\ state = "Running"
    /\ pc = "recv"
    /\ cur.type = "QueryMsg"
    /\ cur.kind = "ContentBoxQuery"

C10_ContentBoxIsUnionOfMatches ==
    ContentBoxAnswered =>
        out = <<Sent("reply_chan",
                     [type |-> "ContentBoxResponse",
                      rect |-> BoundingBox(TaggedWith(display_list_collection[1],
                                                      cur.node))])>>

\* The target node is found only two clips deep in the first list and in
\* the second list; every other item belongs to the other node.
C10_Witness ==
    /\ ContentBoxAnswered
    /\ cur.node = "n1"
    /\ LET c == display_list_collection[1] IN
         /\ Len(c) = 2
         /\ Len(c[1]) = 2
         /\ c[1][1] = Item("n2", RB)
         /\ c[1][2].extra = "n2"
         /\ Len(c[1][2].child_list) = 2
         /\ c[1][2].child_list[1].extra = "n2"
         /\ c[1][2].child_list[2].extra = "n2"
         /\ c[1][2].child_list[2].child_list = <<Item("n1", RB)>>
         /\ c[2] = <<Item("n1", RA)>>
    /\ out[1].msg.rect = Rect(0, 0, 90, 90)

\* C11: the reply to ContentBoxes(node) holds one rectangle for every
\* display item tagged with that node, at any depth of any list: as many
\* rectangles as matching items, each rectangle as often as there are
\* matching items with these bounds, and none when nothing matches.
RECURSIVE Located(_, _)
Located(list, prefix) ==
    UNION { {<<prefix \o <<i>>, list[i]>>}
            \cup (IF list[i].class = "Clip"
                  THEN Located(list[i].child_list, prefix \o <<i>>) ELSE {}) :
            i \in DOMAIN list }

LocatedIn(c) == UNION {Located(c[i], <<i>>) : i \in DOMAIN c}

MatchesOf(c, node) == {l \in LocatedIn(c) : l[2].extra = node}

Occurrences(boxes, r) == Cardinality({i \in DOMAIN boxes : boxes[i] = r})

ContentBoxesAnswered ==
    /\ state = "Running"
    /\ pc = "recv"
    /\ cur.type = "QueryMsg"
    /\ cur.kind = "ContentBoxesQuery"

C11_ContentBoxesOnePerMatch ==
    ContentBoxesAnswered =>
        LET matches == MatchesOf(display_list_collection[1], cur.node) IN
        /\ Len(out) = 1
        /\ out[1].chan = "reply_chan"
        /\ out[1].msg.type = "ContentBoxesResponse"
        /\ Len(out[1].msg.boxes) = Cardinality(matches)
        /\ \A r \in QueryRects \cup {RC} :
              Occurrences(out[1].msg.boxes, r) =
                  Cardinality({l \in matches : l[2].bounds = r})
        /\ \A i \in DOMAIN out[1].msg.boxes :
              \E l \in matches : l[2].bounds = out[1].msg.boxes[i]

\* Three matching items, two of them with the same bounds, one of them two
\* clips deep and one in the second list.
C11_Witness ==
    /\ ContentBoxesAnswered
    /\ cur.node = "n1"
    /\ out[1].msg.boxes = <<RA, RB, RA>>
    /\ LET c == display_list_collection[1] IN
         /\ c[1][1].extra = "n2"
         /\ c[1][2].extra = "n2"
         /\ c[1][2].child_list[2].class = "Clip"
         /\ c[1][2].child_list[2].child_list = <<Item("n1", RB)>>
         /\ c[2] = <<Item("n1", RA)>>

\* C12: the reply to HitTest(point) names the first item whose bounds
\* contain the point in this order: the lists from the last to the first;
\* within a list first what lies in the child lists of its clip items
\* (last clip first, by the same rule), then its other items from the last
\* painted to the first.  Clip items themselves are never hit, and the
\* reply is the explicit "no hit" when no item contains the point.
Reverse(s) == [i \in 1..Len(s) |-> s[Len(s) + 1 - i]]

RECURSIVE ConcatAll(_)
ConcatAll(seqs) ==
    IF seqs = <<>> THEN <<>> ELSE Head(seqs) \o ConcatAll(Tail(seqs))

ClipsOf(list) == SelectSeq(list, LAMBDA it : it.class = "Clip")
PlainOf(list) == SelectSeq(list, LAMBDA it : it.class # "Clip")

RECURSIVE HitOrder(_)
HitOrder(list) ==
    LET clips == Reverse(ClipsOf(list))
    IN  ConcatAll([i \in 1..Len(clips) |-> HitOrder(clips[i].child_list)])
        \o Reverse(PlainOf(list))

CollectionHitOrder(c) ==
    LET lists == Reverse(c)
    IN  ConcatAll([i \in 1..Len(lists) |-> HitOrder(lists[i])])

PointIn(bounds, x, y) ==
    /\ bounds.x <= x /\ x < bounds.x + bounds.w
    /\ bounds.y <= y /\ y < bounds.y + bounds.h

ExpectedHit(c, point) ==
    LET hits == SelectSeq(CollectionHitOrder(c),
                          LAMBDA it : PointIn(it.bounds, 60 * point[1], 60 * point[2]))
    IN  IF hits = <<>> THEN [type |-> "Err"]
        ELSE [type |-> "Ok",
              response |-> [type |-> "HitTestResponse", node |-> hits[1].extra]]

HitTestAnswered ==
    /\ state = "Running"
    /\ pc = "recv"
    /\ cur.type = "QueryMsg"
    /\ cur.kind = "HitTestQuery"

C12_HitTestOrder ==
    HitTestAnswered =>
        out = <<Sent("reply_chan",
                     ExpectedHit(display_list_collection[1], cur.point))>>

\* The point lies in every item of the first list; the hit is the second
\* item of the clip's child list, not its sibling inside the clip painted
\* before it, nor the clip, nor the item painted after the clip.
C12_Witness ==
    /\ HitTestAnswered
    /\ cur.point = <<0, 0>>
    /\ display_list_collection[1] =
          << <<Item("n1", RA),
               Clip("n1", RA, <<Item("n1", RA), Item("n2", RA)>>),
               Item("n1", RA)>>,
             <<Item("n1", RB)>> >>
    /\ out[1].msg.type = "Ok"
    /\ out[1].msg.response.node = "n2"

\* C13: every query handled in the Running state, whatever the task has
\* done before, gets exactly one reply on its reply channel and leaves the
\* task running.
C13_EveryQueryAnswered ==
    [][(Receives /\ state = "Running" /\ Head(port).type = "QueryMsg")
       => /\ state' = "Running"
          /\ pc' = "recv"
          /\ Len(out') = 1
          /\ out'[1].chan = "reply_chan"]_vars

\* C14: in a reflow with the all-style-damage flag set, every flow the
\* top-down push has reached carries the complete damage set, so once the
\* push has reached the whole tree every flow does, whatever damage the
\* flows carried before.
C14_FullTreeDamage ==
    (layout_root # None /\ all_style_damage) =>
        /\ \A f \in visited["propagate_damage"] : restyle_damage[f] = DamageAll
        /\ (pc \notin {"verify", "propagate_damage"} =>
               \A f \in Flows(layout_root[1]) : restyle_damage[f] = DamageAll)

C14_Witness ==
    /\ all_style_damage
    /\ pc = "compute_damage"
    /\ visited["compute_damage"] = {}
    /\ layout_root # None
    /\ Len(layout_root[1].parent) = 4
    /\ \A f \in 1..4 : layout_root[1].restyle_damage[f] = {}
    /\ restyle_damage[3] = DamageAll

\* C15: in a reflow without the flag, once both damage traversals are done
\* the damage of every flow is exactly its own input damage, what
\* propagates down from the input damage of its proper ancestors and what
\* propagates up from the input damage of its proper descendants.
ProperAncestors(t, f) == {a \in Flows(t) \ {f} : IsAncestorOrSelf(t, a, f)}
ProperDescendants(t, f) == {x \in Flows(t) \ {f} : IsAncestorOrSelf(t, f, x)}

ExpectedDamage(t, f) ==
    t.restyle_damage[f]
    \cup UNION {PropagateDown(t.restyle_damage[a]) : a \in ProperAncestors(t, f)}
    \cup UNION {PropagateUp(t.restyle_damage[x]) : x \in ProperDescendants(t, f)}

DamagePropagated ==
    /\ layout_root # None
    /\ TraversalComplete(visited["compute_damage"], layout_root[1])

C15_DamageComposition ==
    (DamagePropagated /\ ~all_style_damage) =>
        \A f \in Flows(layout_root[1]) :
            restyle_damage[f] = ExpectedDamage(layout_root[1], f)

\* The middle flow of a chain receives one effect from its parent and
\* another from its child; Repaint on the leaf stays on the leaf.
C15_Witness ==
    /\ DamagePropagated
    /\ ~all_style_damage
    /\ layout_root[1].parent = <<0, 1, 2>>
    /\ layout_root[1].restyle_damage[1] = {"BubbleWidths"}
    /\ layout_root[1].restyle_damage[2] = {}
    /\ layout_root[1].restyle_damage[3] = {"Reflow", "Repaint"}
    /\ restyle_damage[1] = {"BubbleWidths", "Reflow"}
    /\ restyle_damage[2] = {"BubbleWidths", "Reflow"}
    /\ restyle_damage[3] = {"BubbleWidths", "Reflow", "Repaint"}

\* C16: in a postorder phase run on the pool every flow is handed to one
\* worker and processed once: a flow a worker processes has not been
\* processed in this phase before, no two workers hold the same flow, a
\* flow that waits in the queue or is held has not been processed, and
\* when the phase returns every flow of the tree has been processed.
Processes(w) ==
    /\ pc \in ParPhases
    /\ worker[w] # 0
    /\ worker'[w] # worker[w]

C16_ParallelProcessesEachFlowOnce ==
    /\ [][\A w \in Workers : Processes(w) =>
             /\ worker[w] \notin visited[ParTraversal(pc)]
             /\ visited'[ParTraversal(pc)] =
                    visited[ParTraversal(pc)] \cup {worker[w]}]_vars
    /\ [](pc \in ParPhases =>
             /\ \A w1 \in Workers : \A w2 \in Workers \ {w1} :
                   worker[w1] # 0 => worker[w1] # worker[w2]
             /\ \A w \in Workers : worker[w] \notin queue
             /\ queue \cap visited[ParTraversal(pc)] = {})
    /\ [][(pc \in ParPhases /\ pc' # pc) =>
             visited[ParTraversal(pc)] = Flows(layout_root[1])]_vars

C16_Witness ==
    /\ pc = "build_display_list"
    /\ layout_threads = 3
    /\ layout_root # None
    /\ layout_root[1].parent = <<0, 1, 2, 2, 1>>
    /\ visited["bubble_widths"] = 1..5
    /\ visited["assign_heights"] = 1..5

\* C17: in a postorder phase run on the pool a worker holds, and so
\* processes, a flow only when all children of the flow have completed
\* the phase; it is the only worker holding that flow, and processing
\* the flow writes the computed fields of that flow and of no other.
C17_ParallelChildrenFirst ==
    /\ [](pc \in ParPhases =>
             \A w \in Workers : worker[w] # 0 =>
                /\ Kids(layout_root[1], worker[w]) \subseteq visited[ParTraversal(pc)]
                /\ \A w2 \in Workers \ {w} : worker[w2] # worker[w])
    /\ [][\A w \in Workers : Processes(w) =>
             /\ \A g \in Flows(layout_root[1]) \ {worker[w]} :
                   geometry'[g] = geometry[g]
             /\ (worker'[w] # 0 =>
                   /\ worker'[w] = layout_root[1].parent[worker[w]]
                   /\ Kids(layout_root[1], worker'[w])
                          \subseteq visited'[ParTraversal(pc)])]_vars

\* A worker has gone on to an inner flow while another worker is busy
\* elsewhere in the tree.
C17_Witness ==
    /\ pc = "par_assign_heights"
    /\ layout_root # None
    /\ layout_root[1].parent = <<0, 1, 2, 2, 1>>
    /\ \E w1 \in Workers : \E w2 \in Workers :
          worker[w1] = 2 /\ worker[w2] = 5

\* C18: when the solver has returned, the sequential one or the parallel
\* one with any number of workers, the computed intrinsic widths, width,
\* height and overflow of every flow are what the tree alone determines:
\* each value is computed once from the final values of the flows it
\* depends on, and a flow processed in order has no height or overflow.
RECURSIVE ExpIntrinsic(_, _)
ExpIntrinsic(t, f) ==
    LET ks == ChildSeq(Kids(t, f))
    IN  <<f, [i \in 1..Len(ks) |-> ExpIntrinsic(t, ks[i])]>>

RECURSIVE ExpWidth(_, _)
ExpWidth(t, f) ==
    <<f, ExpIntrinsic(t, f),
      IF t.parent[f] = 0 THEN <<>> ELSE ExpWidth(t, t.parent[f])>>

RECURSIVE ExpHeight(_, _)
ExpHeight(t, f) ==
    IF t.inorder[f] THEN <<>>
    ELSE LET ks == ChildSeq(Kids(t, f))
         IN  <<f, ExpWidth(t, f), [i \in 1..Len(ks) |-> ExpHeight(t, ks[i])]>>

RECURSIVE ExpOverflow(_, _)
ExpOverflow(t, f) ==
    IF t.inorder[f] THEN <<>>
    ELSE LET ks == ChildSeq(Kids(t, f))
         IN  <<f, ExpHeight(t, f), [i \in 1..Len(ks) |-> ExpOverflow(t, ks[i])]>>

Solved == pc = "build_display_list" /\ layout_root # None

C18_SolversAgree ==
    Solved =>
        \A f \in Flows(layout_root[1]) :
            /\ geometry[f].intrinsic = ExpIntrinsic(layout_root[1], f)
            /\ geometry[f].width = ExpWidth(layout_root[1], f)
            /\ geometry[f].height = ExpHeight(layout_root[1], f)
            /\ geometry[f].overflow = ExpOverflow(layout_root[1], f)

C18_Witness ==
    /\ Solved
    /\ layout_threads = 3
    /\ layout_root[1].parent = <<0, 1, 2, 2, 1>>
    /\ layout_root[1].inorder[3]
    /\ geometry[3].height = <<>>
    /\ geometry[1].overflow # <<>>

\* C19: the pool is the one made at creation: it exists exactly when the
\* configured worker count is not one, the field never changes, and it is
\* shut down only by exit_now.  A reflow leaves the dispatch for the
\* sequential solver when there is no pool and for the parallel solver
\* when there is one; the phases of each solver are only ever run in that
\* configuration, and the failure for a missing pool is never reached.
SequentialSolverPhases == {"bubble_widths", "assign_widths", "assign_heights"}
ParallelSolverPhases ==
    {"solve_parallel", "par_bubble_widths", "par_assign_widths",
     "par_assign_heights"}

C19_PoolCreatedOnceAndSelectsSolver ==
    /\ []((parallel_traversal # None) <=> (layout_threads # 1))
    /\ [][/\ parallel_traversal' = parallel_traversal
          /\ layout_threads' = layout_threads
          /\ (pool_shutdowns' # pool_shutdowns => pc = "exit_now")]_vars
    /\ [][(pc = "solve" /\ pc' # pc) =>
             pc' = (IF parallel_traversal = None
                    THEN "bubble_widths" ELSE "solve_parallel")]_vars
    /\ [](pc \in SequentialSolverPhases => parallel_traversal = None)
    /\ [](pc \in ParallelSolverPhases => parallel_traversal # None)
    /\ [](pc # "fail_no_parallel_traversal")

\* A later reflow, after a display reflow has completed, running on the
\* pool made at creation.
C19_Witness ==
    /\ pc = "par_assign_heights"
    /\ display_list_collection # None
    /\ parallel_traversal = Some("WorkQueue")
    /\ layout_threads = 2
    /\ pool_shutdowns = 0

\* C20: the colour sent to the renderer by a display reflow is the
\* resolved background colour of the first html or body element of the
\* document, in preorder, whose colour is not the transparent colour;
\* elements of other types do not count and later candidates do not
\* matter; without such an element the colour is opaque white.
NonTransparentCandidates(document) ==
    {i \in 1..Len(document) :
        /\ document[i].type_id \in {"HTMLHtmlElementTypeId", "HTMLBodyElementTypeId"}
        /\ document[i].background_color # Transparent}

IsOpaqueWhite(color) == \A k \in 1..4 : color[k] >= 1

DisplayListSent ==
    /\ pc = "destroy"
    /\ cur.type = "ReflowMsg"
    /\ cur.goal = "ReflowForDisplay"

TakesConstructionResult == pc = "construct_take" /\ pc' # pc

C21_ConstructionYieldsRootOrFails ==
    /\ [][TakesConstructionResult =>
             IF layout_data[RootNode] = None
             THEN /\ state' = "Failed"
                  /\ pc' = "fail_no_layout_data_for_root_node"
                  /\ layout_root' = None
             ELSE /\ layout_data'[RootNode] = Some(NoConstructionResult)
                  /\ IF layout_data[RootNode][1].kind = "FlowConstructionResult"
                     THEN /\ state' = state
                          /\ layout_root' # None
                          /\ layout_root'[1].is_root
                          /\ [layout_root'[1] EXCEPT !.is_root = FALSE] =
                                 layout_data[RootNode][1].flow
                     ELSE /\ state' = "Failed"
                          /\ pc' = "fail_no_flow_at_root"
                          /\ layout_root' = None]_vars
    /\ [](layout_root # None => layout_root[1].is_root)
    /\ [](pc # "construct_take" =>
             layout_data[RootNode] \in {None, Some(NoConstructionResult)})

C21_Witness ==
    /\ pc = "verify"
    /\ layout_root # None
    /\ layout_root[1].is_root
    /\ Len(layout_root[1].parent) = 3
    /\ layout_data[RootNode] = Some(NoConstructionResult)

\* C22: in both solvers a step that assigns a width runs on the task
\* itself with the pool at rest, when every flow has had its widths
\* bubbled and no flow its height assigned; it assigns the width of one
\* flow that had none, whose parent (if any) already has its width, and
\* touches no other flow.  When the solver returns every flow has had its
\* width assigned.
AssignsWidth(f) ==
    /\ f \notin visited["assign_widths"]
    /\ f \in visited'["assign_widths"]

C22_WidthsSequentialTopDown ==
    /\ [][\A f \in Flows(layout_root[1]) : AssignsWidth(f) =>
             /\ pc \in {"assign_widths", "par_assign_widths"}
             /\ (pc = "par_assign_widths") = (parallel_traversal # None)
             /\ AllIdle /\ queue = {}
             /\ worker' = worker /\ queue' = queue
             /\ visited["bubble_widths"] = Flows(layout_root[1])
             /\ visited["assign_heights"] = {}
             /\ visited'["assign_widths"] = visited["assign_widths"] \cup {f}
             /\ (layout_root[1].parent[f] # 0 =>
                    /\ layout_root[1].parent[f] \in visited["assign_widths"]
                    /\ geometry[layout_root[1].parent[f]].width # Unset)
             /\ geometry[f].width = Unset
             /\ geometry'[f].width # Unset
             /\ \A g \in Flows(layout_root[1]) \ {f} :
                    geometry'[g] = geometry[g]]_vars
    /\ [][\A f \in Flows(layout_root[1]) :
             geometry'[f].width # geometry[f].width => AssignsWidth(f)]_vars
    /\ [](pc \in {"assign_heights", "par_assign_heights", "build_display_list"} =>
             visited["assign_widths"] = Flows(layout_root[1]))

\* The parallel solver half way through its width assignment: the root and
\* one inner flow have their widths, the leaves below do not.
C22_Witness ==
    /\ pc = "par_assign_widths"
    /\ layout_threads = 3
    /\ layout_root[1].parent = <<0, 1, 2, 2, 1>>
    /\ visited["assign_widths"] = {1, 2}
    /\ geometry[2].width # Unset
    /\ geometry[3].width = Unset

\* C23: in the heights pass of either solver a flow that is processed in
\* order never gets a height or an overflow from the pass; any other flow
\* gets its height and, computed from that height, its overflow in one
\* visit, once, when all its children have been visited, and by the end
\* of the pass every such flow has both.
InOrderFlows(t) == {f \in Flows(t) : t.inorder[f]}

C23_HeightsSkipInOrderFlows ==
    /\ [](layout_root # None /\ geometry # <<>> =>
             \A f \in InOrderFlows(layout_root[1]) :
                /\ geometry[f].height = Unset
                /\ geometry[f].overflow = Unset
                /\ f \notin visited["height_assigned"])
    /\ [][layout_root # None /\ geometry # <<>> /\ geometry' # <<>> =>
             \A f \in Flows(layout_root[1]) :
                (\/ geometry'[f].height # geometry[f].height
                 \/ geometry'[f].overflow # geometry[f].overflow) =>
                   /\ pc \in {"assign_heights", "par_assign_heights"}
                   /\ ~layout_root[1].inorder[f]
                   /\ geometry[f].height = Unset
                   /\ geometry[f].overflow = Unset
                   /\ geometry'[f].height # Unset
                   /\ geometry'[f].overflow # Unset
                   /\ geometry'[f].overflow[2] = geometry'[f].height
                   /\ Kids(layout_root[1], f) \subseteq visited["assign_heights"]
                   /\ f \notin visited["assign_heights"]
                   /\ f \in visited'["assign_heights"]]_vars
    /\ [](pc = "build_display_list" /\ layout_root # None =>
             /\ visited["height_assigned"] =
                    Flows(layout_root[1]) \ InOrderFlows(layout_root[1])
             /\ \A f \in Flows(layout_root[1]) \ InOrderFlows(layout_root[1]) :
                    geometry[f].height # Unset /\ geometry[f].overflow # Unset)

\* The pass has visited an inner flow that is processed in order, and has
\* given its parent a height.
C23_Witness ==
    /\ pc = "build_display_list"
    /\ layout_root # None
    /\ layout_root[1].parent = <<0, 1, 2, 2, 1>>
    /\ layout_root[1].inorder[2]
    /\ 2 \in visited["assign_heights"]
    /\ geometry[2].height = Unset
    /\ geometry[3].overflow # Unset
    /\ geometry[1].overflow # Unset

\* C24: the first step of a reflow, whatever the goal, sets the flag
\* exactly when the damage level is ContentChanged or the size asked for
\* differs from the stored size, and stores the size asked for; the stored
\* size is 0 by 0 until a reflow has begun and changes in no other step,
\* and the flag is not touched again before the reflow completes.
RequestedSize == Size2D(60 * cur.window_size[1], 60 * cur.window_size[2])

BeginsReflow == pc = "reflow" /\ pc' # pc

C24_AllStyleDamageFlag ==
    /\ [][BeginsReflow =>
             /\ all_style_damage' =
                    (\/ cur.level = "ContentChangedDocumentDamage"
                     \/ screen_size # RequestedSize)
             /\ screen_size' = RequestedSize]_vars
    /\ [][screen_size' # screen_size => BeginsReflow]_vars
    /\ [][all_style_damage' # all_style_damage =>
             BeginsReflow \/ pc = "script_complete"]_vars
    /\ [](nsent = 0 => screen_size = Size2D(0, 0))

\* A later reflow for a script query that asks for the size the reflow
\* before it stored, with no content change: the flag is not set.
C24_Witness ==
    /\ pc = "match"
    /\ cur.id = 2
    /\ cur.goal = "ReflowForScriptQuery"
    /\ cur.level = "ReflowDocumentDamage"
    /\ cur.window_size = <<2, 1>>
    /\ screen_size = Size2D(120, 60)
    /\ ~all_style_damage

\* C25: in a debug build the verification step ends the task fatally
\* whenever some flow of the tree is not marked exactly one of leaf and
\* nonleaf, that is marked neither or marked both, and lets the reflow go
\* on only when every flow is marked exactly one of the two.
MarkedExactlyOne(t, f) == t.is_leaf[f] # t.is_nonleaf[f]

C25_VerificationRequiresExactlyOneMark ==
    [][(pc = "verify" /\ pc' # pc /\ debug) =>
          IF \A f \in Flows(layout_root[1]) : MarkedExactlyOne(layout_root[1], f)
          THEN state' = "Running" /\ pc' = "propagate_damage"
          ELSE state' = "Failed"]_vars

\* C26: a flow tree comes into being only when a reflow takes it from the
\* constructor, with no tree held before, and goes away only in the
\* destroy step of that reflow, which comes after the solver, after the
\* display list (if one is due) has been sent, and before either
\* acknowledgement.  A tree exists only between those two steps of one
\* reflow (or in the task that failed there): never while the task waits
\* for a message, receives one, handles a query or begins a reflow.
TreePhases ==
    {"verify", "propagate_damage", "compute_damage", "solve", "bubble_widths",
     "assign_widths", "assign_heights", "solve_parallel", "par_bubble_widths",
     "par_assign_widths", "par_assign_heights", "build_display_list", "destroy",
     "fail_flow_tree_verification", "fail_no_parallel_traversal"}

Acknowledged == SentOn(out, {"script_join_chan", "script_chan"}) # <<>>

C26_TreeLivesWithinOneReflow ==
    /\ [][layout_root' # layout_root =>
             \/ /\ pc = "construct_take"
                /\ layout_root = None
                /\ cur.type = "ReflowMsg"
             \/ /\ pc = "destroy"
                /\ layout_root' = None
                /\ visited["assign_heights"] = Flows(layout_root[1])
                /\ (cur.goal = "ReflowForDisplay") =
                      (SentOn(out, {"render_chan"}) # <<>>)
                /\ ~Acknowledged]_vars
    /\ [][pc = "destroy" /\ pc' # pc => layout_root # None /\ layout_root' = None]_vars
    /\ [](layout_root # None =>
             pc \in TreePhases /\ cur.type = "ReflowMsg" /\ ~Acknowledged)
    /\ [][Receives => layout_root = None /\ layout_root' = None]_vars

\* A second reflow is under way with a tree of its own, after a display
\* reflow has come and gone.
C26_Witness ==
    /\ pc = "compute_damage"
    /\ cur.id = 2
    /\ layout_root # None
    /\ Len(layout_root[1].parent) = 3
    /\ display_list_collection # None

\* C27: the pool is shut down at most once, and once the task has
\* terminated normally it has sent the renderer exactly one exit request,
\* the last thing it sent and the only thing the exiting call sent there;
\* nothing is sent once the exit request is out.  The renderer is sent
\* something only by exit_now (the exit request) and by the display-list
\* step of a display reflow (a display list); a completed reflow has sent
\* exactly one display list when its goal is display and none otherwise.
ToRenderer(sends) == SentOn(sends, {"render_chan"})

SendsToRenderer == Len(ToRenderer(out')) > Len(ToRenderer(out))

C27_ExitRequestIsLast ==
    /\ [](pool_shutdowns <= 1)
    /\ [](state = "Exited" =>
             /\ pool_shutdowns = (IF parallel_traversal # None THEN 1 ELSE 0)
             /\ ToRenderer(out) = <<Sent("render_chan", [type |-> "ExitMsg"])>>
             /\ out[Len(out)].chan = "render_chan")
    /\ [][(pc \in {"exit_wait", "done"}) => (out' = out)]_vars
    /\ [][SendsToRenderer =>
             /\ Len(out') = Len(out) + 1
             /\ \/ /\ pc = "exit_send"
                   /\ out'[Len(out')].msg.type = "ExitMsg"
                \/ /\ pc = "build_display_list"
                   /\ cur.type = "ReflowMsg"
                   /\ cur.goal = "ReflowForDisplay"
                   /\ ToRenderer(out) = <<>>
                   /\ out'[Len(out')].msg.type = "RenderMsg"]_vars
    /\ [][pc = "script_complete" /\ pc' # pc =>
             Len(ToRenderer(out')) =
                (IF cur.goal = "ReflowForDisplay" THEN 1 ELSE 0)]_vars

\* Normal termination without a pool, by ExitNow after PrepareToExit, of a
\* task that has sent a display list in an earlier reflow.
C27_Witness ==
    /\ state = "Exited"
    /\ display_list_collection # None
    /\ parallel_traversal = None
    /\ pool_shutdowns = 0
    /\ Len(out) = 2
    /\ out[2].msg.type = "ExitMsg"

====
